---- MODULE Spec2Model ----
(***************************************************************************)
(* Model of nlab-listary: the Durable Store (sled + bincode), the Search   *)
(* Index (tantivy) and the orchestrator of the tauri application that      *)
(* fills both from the local mirror.                                        *)
(*                                                                          *)
(* Strings are sequences of natural numbers (one number per character or   *)
(* per word); the reserved metadata prefix "meta:" is the sequence <<0>>.  *)
(***************************************************************************)
EXTENDS Naturals, Sequences, FiniteSets

VARIABLES
    crate,        \* which crate's code runs: "tauri" (src-tauri) or "demo" (src/src)
    db,           \* sled tree as the open handle sees it: set of <<key, value>>
    dbDisk,       \* the part of the tree that survives a crash (flushed)
    idxDocs,      \* live documents of the committed tantivy index, in address order
    idxReader,    \* the documents the handle's reader serves (as of its last reload)
    libBuilt,     \* library runs: build_index has loaded the index
    libDistinct,  \* library runs: the pages given to build_index had pairwise distinct ids
    written,      \* library runs: per page id, the page of the last successful write;
                  \* per metadata key, the value of the last successful set_metadata
    lastOp,       \* library runs: the last call, [op, pages, ok, err]
    batchCall,    \* store runs: the save_pages_batch call in progress, step by step
    remote,       \* origin: [rev, base, tree]: its head commit, the oldest commit of its
                  \* history, and the pages the documents of the head commit yield
    mirror,       \* nlab_mirror: [exists, rev, wt, tree]: the commit of the local branch
                  \* (HEAD), the commit the working tree was checked out from, its pages
    gitOp,        \* the update_local_repository call that has returned and whose caller
                  \* has not taken its next step: [by, outcome, ok, before, fetched]
    storageDir,   \* nlab_page_data.db/storage exists
    indexDir,     \* nlab_page_index/index: "absent", "empty" (directory only) or "index"
    pc,           \* where the initialization thread is
    initPages,    \* initialize_components: pages, the result of index_local_files
    appState,     \* AppStateInner: [search_engine, storage], TRUE for Some
    sync,         \* sync_local_repo: [pc, pages]
    runs,         \* how often the application was started
    completed,    \* the passes of initialization that returned Ok: their revisions
    events,       \* what the initialization thread of this run has emitted, in order
    parseCall     \* parser runs: an index_local_files call, entry by entry:
                  \* [entries, next, pages, skipped_files, pc, printed, ret]

\* the application's own variables
appVars == <<remote, mirror, gitOp, storageDir, indexDir, pc, initPages, appState, sync, runs,
             completed, events>>

vars == <<crate, db, dbDisk, idxDocs, idxReader, libBuilt, libDistinct, written, lastOp,
          batchCall, appVars, parseCall>>

\* what the library runs leave alone
notLib == <<batchCall, appVars, parseCall>>
\* what the store runs leave alone
notStore == <<idxDocs, idxReader, libBuilt, libDistinct, written, appVars, parseCall>>
\* what the application leaves alone
notApp == <<crate, libBuilt, libDistinct, written, lastOp, batchCall, parseCall>>
\* what the parser runs leave alone
notParse == <<crate, db, dbDisk, idxDocs, idxReader, libBuilt, libDistinct, written, lastOp,
              batchCall, appVars>>
\* the same, for the steps that do not call update_local_repository
notGit == <<gitOp, notApp>>

-----------------------------------------------------------------------------
(* Bounds of the model *)

\* longest page slice handed to a batch call
MaxBatch == 2
\* most live documents the index holds in a library run
MaxIdxDocs == 3

\* documents of the mirror, by number; document i has the relative path <<i>>
DocNums == {1, 2}
\* versions of a document's text
Versions == {1, 2}

-----------------------------------------------------------------------------
(* Pages: models.rs *)

\* NLabPage::new: the id is the file path
NLabPage_new(file_path, title, url, content) ==
    [id |-> file_path, title |-> title, file_path |-> file_path,
     url |-> url, content |-> content]

\* word 100+i names document i in every version ("first"), 200+v marks the
\* version ("updated"), 10*i+v occurs in this version of this page only,
\* 300 occurs in every page. The second version repeats the name and the
\* common word in its content, so each of them occurs twice in it.
PageOf(i, v) ==
    NLabPage_new(<<i>>, <<100 + i, 200 + v>>, <<400, i>>,
                 <<10 * i + v, 300>> \o (IF v = 2 THEN <<100 + i, 300>> ELSE <<>>))

Pages == {PageOf(i, v) : i \in DocNums, v \in Versions}
PageIds == {p.id : p \in Pages}

RECURSIVE SeqsUpTo(_, _)
SeqsUpTo(S, n) ==
    IF n = 0 THEN {<<>>}
    ELSE LET shorter == SeqsUpTo(S, n - 1)
         IN  shorter \cup {Append(s, x) : s \in {t \in shorter : Len(t) = n - 1}, x \in S}

\* the size of the content test_page_size_exceeded builds, short of the
\* 1000 bytes it adds
PageBytes == 4 * 1024

\* a version of document 1 whose content alone has NLAB_PAGE_SIZE bytes
\* (test_page_size_exceeded)
LargePage ==
    NLabPage_new(<<1>>, <<101, 203>>, <<400, 1>>, [k \in 1..PageBytes |-> 300])

\* the page slices a batch call is given
Batches == SeqsUpTo(Pages, MaxBatch)

\* slices with the oversized page, after and before another page
OversizedBatches == {<<PageOf(2, 1), LargePage>>, <<LargePage, PageOf(2, 2)>>}

DistinctIds(pages) ==
    \A j, k \in 1..Len(pages) : pages[j].id = pages[k].id => j = k

-----------------------------------------------------------------------------
(* bincode, standard configuration: a String is its length, then its bytes; *)
(* a struct is its fields in declaration order.                             *)

EncodeString(s) == <<Len(s)>> \o s

\* mutant: the fields are written in another order than they are read
encode_to_vec_reordered(page) ==
    EncodeString(page.id) \o EncodeString(page.file_path) \o EncodeString(page.title)
        \o EncodeString(page.url) \o EncodeString(page.content)

\* derive(Encode) for NLabPage: id, title, file_path, url, content
encode_to_vec(page) ==
    EncodeString(page.id) \o EncodeString(page.title) \o EncodeString(page.file_path)
        \o EncodeString(page.url) \o EncodeString(page.content)

\* one String read at offset at (1-based): [ok, val, next]
DecodeString(bytes, at) ==
    IF at > Len(bytes) THEN [ok |-> FALSE, val |-> <<>>, next |-> at]
    ELSE LET n == bytes[at]
         IN  IF at + n > Len(bytes) THEN [ok |-> FALSE, val |-> <<>>, next |-> at]
             ELSE [ok |-> TRUE, val |-> SubSeq(bytes, at + 1, at + n), next |-> at + n + 1]

\* derive(Decode) for NLabPage; trailing bytes are allowed (the read length is dropped)
decode_from_slice(bytes) ==
    LET f1 == DecodeString(bytes, 1)
        f2 == DecodeString(bytes, f1.next)
        f3 == DecodeString(bytes, f2.next)
        f4 == DecodeString(bytes, f3.next)
        f5 == DecodeString(bytes, f4.next)
    IN  IF f1.ok /\ f2.ok /\ f3.ok /\ f4.ok /\ f5.ok
        THEN [ok |-> TRUE,
              page |-> [id |-> f1.val, title |-> f2.val, file_path |-> f3.val,
                        url |-> f4.val, content |-> f5.val]]
        ELSE [ok |-> FALSE, page |-> <<>>]

-----------------------------------------------------------------------------
(* sled::Db and sled::Batch *)

DbHas(d, k) == \E e \in d : e[1] = k
DbGet(d, k) == (CHOOSE e \in d : e[1] = k)[2]

\* mutant: the key's first value is kept
DbInsert_keepFirst(d, k, v) == IF DbHas(d, k) THEN d ELSE d \cup {<<k, v>>}

\* Db::insert / Batch::insert: the key's previous value is replaced
DbInsert(d, k, v) == {e \in d : e[1] # k} \cup {<<k, v>>}

\* mutant: a write of the batch to a key the tree holds removes the key
DbApplyBatch_toggle(d, batch) ==
    {e \in d : ~DbHas(batch, e[1])} \cup {e \in batch : ~DbHas(d, e[1])}

\* Db::apply_batch: every write of the batch, in one step
DbApplyBatch(d, batch) == {e \in d : ~DbHas(batch, e[1])} \cup batch

-----------------------------------------------------------------------------
(* Storage: storage.rs *)

NLAB_PAGE_SIZE == 4 * 1024

\* the size check is live in src/src/storage.rs and commented out in src-tauri
SizeLimitEnforced(c) == c = "demo"

Ok(d) == [ok |-> TRUE, db |-> d, err |-> "none"]
Err(d, e) == [ok |-> FALSE, db |-> d, err |-> e]

\* mutant: the size is checked after the insert
save_page_checkAfterInsert(c, d, page) ==
    LET serialized == encode_to_vec(page)
    IN  IF SizeLimitEnforced(c) /\ Len(serialized) > NLAB_PAGE_SIZE
        THEN Err(DbInsert(d, page.id, serialized), "PageSizeExceeded")
        ELSE Ok(DbInsert(d, page.id, serialized))

save_page(c, d, page) ==
    LET serialized == encode_to_vec(page)
    IN  IF SizeLimitEnforced(c) /\ Len(serialized) > NLAB_PAGE_SIZE
        THEN Err(d, "PageSizeExceeded")
        ELSE Ok(DbInsert(d, page.id, serialized))

\* Ok(Some(page)) / Ok(None) / Err(DeserializationError)
get_page(d, page_id) ==
    IF DbHas(d, page_id)
    THEN LET dec == decode_from_slice(DbGet(d, page_id))
         IN  IF dec.ok THEN [ok |-> TRUE, some |-> TRUE, page |-> dec.page]
             ELSE [ok |-> FALSE, some |-> FALSE, page |-> <<>>]
    ELSE [ok |-> TRUE, some |-> FALSE, page |-> <<>>]

\* mutant: the page is written to the tree at once, as save_page does
batch_insert_direct(c, d, batch, page) ==
    [ok |-> TRUE, db |-> DbInsert(d, page.id, encode_to_vec(page)), batch |-> batch,
     err |-> "none"]

\* one pass of the loop of save_pages_batch: the page is serialized and put
\* into the sled::Batch; the tree is not touched
batch_insert(c, d, batch, page) ==
    LET serialized == encode_to_vec(page)
    IN  IF SizeLimitEnforced(c) /\ Len(serialized) > NLAB_PAGE_SIZE
        THEN [ok |-> FALSE, db |-> d, batch |-> batch, err |-> "PageSizeExceeded"]
        ELSE [ok |-> TRUE, db |-> d, batch |-> DbInsert(batch, page.id, serialized),
              err |-> "none"]

\* the loop of save_pages_batch over pages[1..n], ended by the first error
RECURSIVE BatchLoop(_, _, _, _)
BatchLoop(c, d, pages, n) ==
    IF n = 0 THEN [ok |-> TRUE, db |-> d, batch |-> {}, err |-> "none"]
    ELSE LET prev == BatchLoop(c, d, pages, n - 1)
         IN  IF ~prev.ok THEN prev ELSE batch_insert(c, prev.db, prev.batch, pages[n])

\* self.db.apply_batch(batch)
apply_batch(d, batch) == DbApplyBatch(d, batch)

\* mutant: what the loop has collected is applied when it stops on an error
save_pages_batch_applyOnError(c, d, pages) ==
    LET r == BatchLoop(c, d, pages, Len(pages))
    IN  IF r.ok THEN Ok(apply_batch(r.db, r.batch))
        ELSE Err(apply_batch(r.db, r.batch), r.err)

save_pages_batch(c, d, pages) ==
    LET r == BatchLoop(c, d, pages, Len(pages))
    IN  IF r.ok THEN Ok(apply_batch(r.db, r.batch)) ELSE Err(r.db, r.err)

StartsWithMeta(key) == Len(key) >= 1 /\ key[1] = 0

\* mutant: the key is not checked
set_metadata_anyKey(d, key, value) == Ok(DbInsert(d, key, value))

set_metadata(d, key, value) ==
    IF ~StartsWithMeta(key) THEN Err(d, "InvalidMetadataKey")
    ELSE Ok(DbInsert(d, key, value))

get_metadata(d, key) ==
    IF ~StartsWithMeta(key)
    THEN [ok |-> FALSE, some |-> FALSE, value |-> <<>>, err |-> "InvalidMetadataKey"]
    ELSE IF DbHas(d, key)
    THEN [ok |-> TRUE, some |-> TRUE, value |-> DbGet(d, key), err |-> "none"]
    ELSE [ok |-> TRUE, some |-> FALSE, value |-> <<>>, err |-> "none"]

\* keys the metadata calls are given: "meta:last_sync", "meta:total_pages",
\* a page id and the empty string
MetaKeys == {<<0, 1>>, <<0, 2>>, <<1>>, <<>>}
ValidMetaKeys == {k \in MetaKeys : StartsWithMeta(k)}
\* values the metadata calls are given
MetaValues == {<<1>>, <<2>>}

-----------------------------------------------------------------------------
(* TantivySearch: search.rs *)

\* create_schema: src-tauri declares id STRING | STORED (indexed as one exact
\* term); src/src declares it STORED only, so no term of the id field exists
IdIndexed(c) == c = "tauri"

\* doc!(page_id => .., page_title => .., page_content => ..)
DocOf(page) == [id |-> page.id, title |-> page.title, content |-> page.content]

RECURSIVE DropId(_, _)
DropId(docs, id) ==
    IF docs = <<>> THEN <<>>
    ELSE IF Head(docs).id = id THEN DropId(Tail(docs), id)
    ELSE <<Head(docs)>> \o DropId(Tail(docs), id)

\* IndexWriter::delete_term on the id field: every document added before the
\* call that holds the term is deleted; on a field that is not indexed the
\* term query cannot be built and the call does nothing
delete_term(docs, id, indexed) == IF indexed THEN DropId(docs, id) ELSE docs

\* IndexWriter::add_document
add_document(docs, page) == Append(docs, DocOf(page))

\* the loop of build_index over docs[1..n]
RECURSIVE BuildLoop(_, _, _)
BuildLoop(docs, pages, n) ==
    IF n = 0 THEN docs ELSE add_document(BuildLoop(docs, pages, n - 1), pages[n])

\* mutant: the loop runs twice over the pages
build_index_twice(docs, pages) ==
    BuildLoop(BuildLoop(docs, pages, Len(pages)), pages, Len(pages))

\* build_index: add every page, commit (the result is the committed index)
build_index(docs, pages) == BuildLoop(docs, pages, Len(pages))

\* mutant: the index is left with the page alone
update_page_replaceAll(docs, page, indexed) == <<DocOf(page)>>

\* update_page: delete_term, add_document, commit
update_page(docs, page, indexed) ==
    add_document(delete_term(docs, page.id, indexed), page)

\* the loop of update_pages_batch over pages[1..n]
RECURSIVE UpdateLoop(_, _, _, _)
UpdateLoop(docs, pages, n, indexed) ==
    IF n = 0 THEN docs
    ELSE add_document(
             delete_term(UpdateLoop(docs, pages, n - 1, indexed), pages[n].id, indexed),
             pages[n])

\* mutant: the pages are added and the old documents are not deleted
update_pages_batch_addOnly(docs, pages, indexed) == build_index(docs, pages)

\* mutant: an empty slice empties the index
update_pages_batch_clearOnEmpty(docs, pages, indexed) ==
    IF pages = <<>> THEN <<>> ELSE UpdateLoop(docs, pages, Len(pages), indexed)

\* update_pages_batch: one writer, delete_term + add_document per page, one commit
update_pages_batch(docs, pages, indexed) == UpdateLoop(docs, pages, Len(pages), indexed)

\* delete_page: delete_term, commit
delete_page(docs, page_id, indexed) == delete_term(docs, page_id, indexed)

RECURSIVE Count(_, _)
Count(s, t) ==
    IF s = <<>> THEN 0 ELSE (IF Head(s) = t THEN 1 ELSE 0) + Count(Tail(s), t)

\* mutant: the query parser is built over both fields whatever the filter says
Score_bothFields(doc, term, title_only) ==
    Count(doc.title, term) + Count(doc.content, term)

\* relevance of a document for a one-term query: the term's frequency in the
\* fields the query parser was built over (title, or title and content)
Score(doc, term, title_only) ==
    Count(doc.title, term) + (IF title_only THEN 0 ELSE Count(doc.content, term))

\* TopDocs::with_limit(limit): the addresses of the best-scoring matches, by
\* descending score, equal scores by ascending address
RECURSIVE TopDocs(_, _, _, _, _)
TopDocs(reader, cand, term, title_only, limit) ==
    IF limit = 0 \/ cand = {} THEN <<>>
    ELSE LET best == CHOOSE k \in cand : \A j \in cand :
                        \/ Score(reader[k], term, title_only) > Score(reader[j], term, title_only)
                        \/ /\ Score(reader[k], term, title_only) = Score(reader[j], term, title_only)
                           /\ k <= j
         IN  <<best>> \o TopDocs(reader, cand \ {best}, term, title_only, limit - 1)

SearchResult(doc, score) ==
    [id |-> doc.id, score |-> score, title |-> doc.title, content |-> doc.content]

RECURSIVE KeepMinScore(_, _)
KeepMinScore(results, min_score) ==
    IF results = <<>> THEN <<>>
    ELSE IF Head(results).score < min_score THEN KeepMinScore(Tail(results), min_score)
    ELSE <<Head(results)>> \o KeepMinScore(Tail(results), min_score)

\* mutant: min_score is not looked at
search_with_filters_noMinScore(reader, term, limit, title_only, min_score) ==
    LET matches == {k \in 1..Len(reader) : Score(reader[k], term, title_only) > 0}
        top == TopDocs(reader, matches, term, title_only, limit)
    IN  [k \in 1..Len(top) |->
            SearchResult(reader[top[k]], Score(reader[top[k]], term, title_only))]

\* search_with_filters on the reader's documents
search_with_filters(reader, term, limit, title_only, min_score) ==
    LET matches == {k \in 1..Len(reader) : Score(reader[k], term, title_only) > 0}
        top == TopDocs(reader, matches, term, title_only, limit)
        hits == [k \in 1..Len(top) |->
                    SearchResult(reader[top[k]], Score(reader[top[k]], term, title_only))]
    IN  KeepMinScore(hits, min_score)

\* search: SearchFilters::default()
search(reader, term, limit) == search_with_filters(reader, term, limit, FALSE, 0)

\* the limit get_search_results and the tests pass to search
QueryLimit == 10

\* a query string the query parser rejects (a syntax error); every other
\* query is one word
MalformedQuery == 0

\* mutant: the parser takes every string as a term
parse_query_lenient(query) == [ok |-> TRUE, term |-> query]

\* QueryParser::parse_query
parse_query(query) ==
    IF query = MalformedQuery THEN [ok |-> FALSE, term |-> query]
    ELSE [ok |-> TRUE, term |-> query]

\* what the searcher can answer: "none", or an error of the index engine
\* (searcher.search or searcher.doc returns Err)
EngineFaults == {"none", "TantivyError"}

\* search_with_filters as the caller sees it: Result<Vec<SearchResult>, SearchError>;
\* the ? after parse_query makes a QueryParserError a SearchError::QueryParseError
try_search_with_filters(reader, query, limit, title_only, min_score, fault) ==
    LET q == parse_query(query)
    IN  IF ~q.ok THEN [ok |-> FALSE, err |-> "QueryParseError", hits |-> <<>>]
        ELSE IF fault # "none" THEN [ok |-> FALSE, err |-> fault, hits |-> <<>>]
        ELSE [ok |-> TRUE, err |-> "none",
              hits |-> search_with_filters(reader, q.term, limit, title_only, min_score)]

try_search(reader, query, limit, fault) ==
    try_search_with_filters(reader, query, limit, FALSE, 0, fault)

\* #[error(..)] of SearchError, as get_search_results formats it
FailedToSearch(kind) ==
    CASE kind = "IoError" -> "failed to search: IO error"
      [] kind = "TantivyError" -> "failed to search: Tantivy error"
      [] kind = "QueryParseError" -> "failed to search: Query parsing error"

-----------------------------------------------------------------------------
(* Library runs: any sequence of calls on one TantivySearch, or any sequence *)
(* of calls on one Storage. The two objects share no state, so a run drives  *)
(* one of them.                                                              *)

NoOp == [op |-> "none", pages |-> <<>>, ok |-> TRUE, err |-> "none"]
NoPage == <<>>
NoBatchCall == [pc |-> "idle", pages |-> <<>>, pos |-> 0, batch |-> {}, pre |-> {}, preDisk |-> {}]

\* the writes of pages[1..n], in order, recorded per id
RECURSIVE Record(_, _, _)
Record(w, pages, n) ==
    IF n = 0 THEN w
    ELSE [Record(w, pages, n - 1) EXCEPT ![pages[n].id] = pages[n]]
Called(name, pages, ok) == [op |-> name, pages |-> pages, ok |-> ok, err |-> "none"]
\* a search call: the query in place of the pages, and the error kind
Searched(query, r) == [op |-> "search", pages |-> <<[id |-> query]>>, ok |-> r.ok, err |-> r.err]

\* no index_local_files call is modelled entry by entry
NoParseCall == [entries |-> <<>>, next |-> 1, pages |-> <<>>, skipped_files |-> <<>>,
                pc |-> "off", printed |-> <<>>, ret |-> [ok |-> TRUE, pages |-> <<>>]]

NoMirror == [exists |-> FALSE, rev |-> 0, wt |-> 0, tree |-> {}]
NoGitOp == [by |-> "none", outcome |-> "none", ok |-> TRUE, before |-> NoMirror,
            fetched |-> [rev |-> 0, base |-> 0, tree |-> {}]]

\* the application's variables in the runs that do not start it
AppUnused ==
    /\ remote = [rev |-> 0, base |-> 0, tree |-> {}]
    /\ mirror = NoMirror
    /\ gitOp = NoGitOp
    /\ storageDir = FALSE
    /\ indexDir = "absent"
    /\ pc = "off"
    /\ initPages = <<>>
    /\ appState = [search_engine |-> FALSE, storage |-> FALSE]
    /\ sync = [pc |-> "idle", pages |-> <<>>]
    /\ runs = 0
    /\ completed = <<>>
    /\ events = <<>>

LibInit ==
    /\ crate \in {"tauri", "demo"}
    /\ db = {}
    /\ dbDisk = {}
    /\ idxDocs = <<>>
    /\ idxReader = <<>>
    /\ libBuilt = FALSE
    /\ libDistinct = TRUE
    /\ written = [id \in PageIds \cup ValidMetaKeys |-> NoPage]
    /\ lastOp = NoOp
    /\ batchCall = NoBatchCall
    /\ parseCall = NoParseCall
    /\ AppUnused

\* the run drives the TantivySearch: no call on the Storage was made
IndexRun == lastOp.op \notin {"save_page", "save_pages_batch", "set_metadata", "get_metadata"}
\* the run drives the Storage: no call on the TantivySearch was made
StoreRun == ~libBuilt

\* mutant: commit without reader.reload()
Committed_noReload(docs) ==
    /\ Len(docs) <= MaxIdxDocs
    /\ idxDocs' = docs
    /\ idxReader' = idxReader

\* commit, then reader.reload()
Committed(docs) ==
    /\ Len(docs) <= MaxIdxDocs
    /\ idxDocs' = docs
    /\ idxReader' = docs

Lib_build_index ==
    \E ps \in Batches :
        /\ IndexRun
        /\ ~libBuilt
        /\ idxDocs = <<>>
        /\ Committed(build_index(idxDocs, ps))
        /\ libBuilt' = TRUE
        /\ libDistinct' = DistinctIds(ps)
        /\ lastOp' = Called("build_index", ps, TRUE)
        /\ UNCHANGED <<crate, db, dbDisk, written, notLib>>

Lib_update_page ==
    \E p \in Pages :
        /\ libBuilt
        /\ Committed(update_page(idxDocs, p, IdIndexed(crate)))
        /\ lastOp' = Called("update_page", <<p>>, TRUE)
        /\ UNCHANGED <<crate, db, dbDisk, libBuilt, libDistinct, written, notLib>>

Lib_update_pages_batch ==
    \E ps \in Batches :
        /\ libBuilt
        /\ Committed(update_pages_batch(idxDocs, ps, IdIndexed(crate)))
        /\ lastOp' = Called("update_pages_batch", ps, TRUE)
        /\ UNCHANGED <<crate, db, dbDisk, libBuilt, libDistinct, written, notLib>>

Lib_delete_page ==
    \E id \in PageIds :
        /\ libBuilt
        /\ Committed(delete_page(idxDocs, id, IdIndexed(crate)))
        /\ lastOp' = Called("delete_page", <<[id |-> id]>>, TRUE)
        /\ UNCHANGED <<crate, db, dbDisk, libBuilt, libDistinct, written, notLib>>

\* the words that occur in pages
Words == {100 + i : i \in DocNums} \cup {200 + v : v \in Versions}
            \cup {10 * i + v : i \in DocNums, v \in Versions} \cup {300}

\* the queries a search is called with: a malformed one, the name of each
\* document and the word every page holds
Queries == {MalformedQuery} \cup {100 + i : i \in DocNums} \cup {300}

\* search(query, limit) on the built index
Lib_search ==
    \E q \in Queries, fault \in EngineFaults :
        /\ libBuilt
        /\ lastOp' = Searched(q, try_search(idxReader, q, QueryLimit, fault))
        /\ UNCHANGED <<crate, db, dbDisk, idxDocs, idxReader, libBuilt, libDistinct, written,
                       notLib>>

Lib_save_page ==
    \E p \in Pages \cup {LargePage} :
        LET r == save_page(crate, db, p)
        IN  /\ StoreRun
            /\ db' = r.db
            /\ written' = IF r.ok THEN Record(written, <<p>>, 1) ELSE written
            /\ lastOp' = [Called("save_page", <<p>>, r.ok) EXCEPT !.err = r.err]
            /\ UNCHANGED <<crate, dbDisk, idxDocs, idxReader, libBuilt, libDistinct, notLib>>

Lib_save_pages_batch ==
    \E ps \in Batches \cup OversizedBatches :
        LET r == save_pages_batch(crate, db, ps)
        IN  /\ StoreRun
            /\ db' = r.db
            /\ written' = IF r.ok THEN Record(written, ps, Len(ps)) ELSE written
            /\ lastOp' = [Called("save_pages_batch", ps, r.ok) EXCEPT !.err = r.err]
            /\ UNCHANGED <<crate, dbDisk, idxDocs, idxReader, libBuilt, libDistinct, notLib>>

\* a metadata call: the key in place of the pages, what the call returned
MetaCalled(name, key, r, some, value) ==
    [op |-> name, pages |-> <<[id |-> key, some |-> some, value |-> value]>>,
     ok |-> r.ok, err |-> r.err]

Lib_set_metadata ==
    \E k \in MetaKeys, v \in MetaValues :
        LET r == set_metadata(db, k, v)
        IN  /\ StoreRun
            /\ db' = r.db
            /\ written' = IF r.ok THEN [written EXCEPT ![k] = v] ELSE written
            /\ lastOp' = MetaCalled("set_metadata", k, r, FALSE, v)
            /\ UNCHANGED <<crate, dbDisk, idxDocs, idxReader, libBuilt, libDistinct, notLib>>

Lib_get_metadata ==
    \E k \in MetaKeys :
        LET r == get_metadata(db, k)
        IN  /\ StoreRun
            /\ lastOp' = MetaCalled("get_metadata", k, r, r.some, r.value)
            /\ UNCHANGED <<crate, db, dbDisk, idxDocs, idxReader, libBuilt, libDistinct,
                           written, notLib>>

LibNext ==
    \/ Lib_build_index
    \/ Lib_update_page
    \/ Lib_update_pages_batch
    \/ Lib_delete_page
    \/ Lib_search
    \/ Lib_save_page
    \/ Lib_save_pages_batch
    \/ Lib_set_metadata
    \/ Lib_get_metadata

SpecLib == LibInit /\ [][LibNext]_vars

-----------------------------------------------------------------------------
(* Claims about the library calls *)

OccursIn(t, doc) == Count(doc.title, t) + Count(doc.content, t) > 0

\* pages[k] is the batch's last page with its id
LastOfId(pages, k) == \A j \in (k + 1)..Len(pages) : pages[j].id # pages[k].id

LiveCount(docs, id) == Cardinality({k \in 1..Len(docs) : docs[k].id = id})
RecordCount(d, key) == Cardinality({e \in d : e[1] = key})

Upserted == lastOp.op \in {"update_page", "update_pages_batch"} /\ lastOp.ok
Saved == lastOp.op \in {"save_page", "save_pages_batch"} /\ lastOp.ok

\* C3: after update_page(p) or an update_pages_batch holding p returns, a
\* search for a term that occurs in p and in no page with another id returns
\* exactly one hit: id p.id, with p's title and content.
C3_UpsertThenSearchOneHit ==
    Upserted =>
        \A k \in 1..Len(lastOp.pages) :
            LastOfId(lastOp.pages, k) =>
                LET p == lastOp.pages[k]
                IN  \A t \in Words :
                        (/\ OccursIn(t, DocOf(p))
                         /\ \A j \in 1..Len(idxReader) :
                                idxReader[j].id # p.id => ~OccursIn(t, idxReader[j]))
                        => LET r == search(idxReader, t, QueryLimit)
                           IN  /\ Len(r) = 1
                               /\ r[1].id = p.id
                               /\ r[1].title = p.title
                               /\ r[1].content = p.content

\* C4: with the schema of src-tauri and an index loaded by one build_index
\* with pairwise distinct ids, every page id has at most one live document
\* in the index (committed and as served by the reader) and at most one
\* record in the store, after any sequence of calls.
C4_AtMostOnePerId ==
    (crate = "tauri" /\ libDistinct) =>
        \A id \in PageIds :
            /\ LiveCount(idxDocs, id) <= 1
            /\ LiveCount(idxReader, id) <= 1
            /\ RecordCount(db, id) <= 1

\* C4 witness: a batch holding the same id twice, with different texts, was
\* upserted into a built index that holds another id: the id has one live
\* document, that of the batch's second page.
C4_Witness ==
    /\ crate = "tauri" /\ libBuilt /\ libDistinct
    /\ lastOp.op = "update_pages_batch"
    /\ Len(lastOp.pages) = 2
    /\ lastOp.pages[1].id = lastOp.pages[2].id
    /\ lastOp.pages[1] # lastOp.pages[2]
    /\ Len(idxDocs) = 2
    /\ LiveCount(idxDocs, lastOp.pages[1].id) = 1
    /\ idxDocs[2] = DocOf(lastOp.pages[2])

\* C5: a save_pages_batch(P) that directly follows a successful
\* save_pages_batch(P) changes the result of get_page for no id.
C5_BatchTwiceIsBatchOnce ==
    [][(/\ lastOp.op = "save_pages_batch" /\ lastOp.ok
        /\ lastOp'.op = "save_pages_batch"
        /\ lastOp'.pages = lastOp.pages)
       => \A id \in PageIds : get_page(db', id) = get_page(db, id)]_vars

\* C5 witness: a non-empty batch was applied to a store that held another
\* version of one of its pages.
C5_Witness ==
    /\ lastOp.op = "save_pages_batch" /\ lastOp.ok
    /\ Len(lastOp.pages) = 2
    /\ \A k \in 1..2 : get_page(db, lastOp.pages[k].id).some
    /\ lastOp.pages[1].id # lastOp.pages[2].id

\* C6 as claimed: after a successful save_page(p) or save_pages_batch
\* holding p, get_page(p.id) is p, for every page p of the call.
C6_GetReturnsEveryPagePut ==
    Saved =>
        \A k \in 1..Len(lastOp.pages) :
            get_page(db, lastOp.pages[k].id) =
                [ok |-> TRUE, some |-> TRUE, page |-> lastOp.pages[k]]

\* C6 amended: after a successful save_page(p) or save_pages_batch holding
\* p, get_page(p.id) is p in every field, for every p that is the call's
\* last page with its id.
C6_GetReturnsLastPagePut ==
    Saved =>
        \A k \in 1..Len(lastOp.pages) :
            LastOfId(lastOp.pages, k) =>
                LET got == get_page(db, lastOp.pages[k].id)
                    p == lastOp.pages[k]
                IN  /\ got.ok /\ got.some
                    /\ got.page.id = p.id
                    /\ got.page.title = p.title
                    /\ got.page.file_path = p.file_path
                    /\ got.page.url = p.url
                    /\ got.page.content = p.content

\* C6 witness: a batch of two pages with different ids was saved over an
\* older version of one of them.
C6_Witness ==
    /\ lastOp.op = "save_pages_batch" /\ lastOp.ok
    /\ Len(lastOp.pages) = 2
    /\ lastOp.pages[1].id # lastOp.pages[2].id
    /\ get_page(db, lastOp.pages[1].id).page = lastOp.pages[1]
    /\ get_page(db, lastOp.pages[2].id).page = lastOp.pages[2]

\* C7: get_page(id) is Ok(Some(the page last written under id)), and Ok(None)
\* for an id never written.
C7_GetReturnsMostRecentWrite ==
    \A id \in PageIds :
        get_page(db, id) =
            IF written[id] = NoPage
            THEN [ok |-> TRUE, some |-> FALSE, page |-> <<>>]
            ELSE [ok |-> TRUE, some |-> TRUE, page |-> written[id]]

\* C7 witness: one id was written twice with different pages, by a save_page
\* after a batch, and another id was never written.
C7_Witness ==
    /\ lastOp.op = "save_page" /\ lastOp.ok
    /\ \E id \in PageIds : written[id] = NoPage /\ ~get_page(db, id).some
    /\ \E p \in Pages :
          /\ p.id = lastOp.pages[1].id
          /\ p # lastOp.pages[1]
          /\ get_page(db, p.id).page = lastOp.pages[1]

-----------------------------------------------------------------------------
(* Store runs: one Storage handle, save_pages_batch taken step by step,     *)
(* with the flushes of sled and crashes of the process in between. A state  *)
(* between two steps is what a get_page on another thread can read.         *)

StoreInit ==
    /\ crate \in {"tauri", "demo"}
    /\ db = {}
    /\ dbDisk = {}
    /\ idxDocs = <<>>
    /\ idxReader = <<>>
    /\ libBuilt = FALSE
    /\ libDistinct = TRUE
    /\ written = [id \in PageIds \cup ValidMetaKeys |-> NoPage]
    /\ lastOp = NoOp
    /\ batchCall = NoBatchCall
    /\ parseCall = NoParseCall
    /\ AppUnused

St_save_page ==
    \E p \in Pages :
        /\ batchCall.pc # "building"
        /\ db' = save_page(crate, db, p).db
        /\ batchCall' = NoBatchCall
        /\ lastOp' = Called("save_page", <<p>>, TRUE)
        /\ UNCHANGED <<crate, dbDisk, notStore>>

\* save_pages_batch is entered: let mut batch = sled::Batch::default()
St_batch_begin ==
    \E ps \in Batches :
        /\ batchCall.pc # "building"
        /\ batchCall' = [pc |-> "building", pages |-> ps, pos |-> 0, batch |-> {},
                         pre |-> db, preDisk |-> dbDisk]
        /\ lastOp' = NoOp
        /\ UNCHANGED <<crate, db, dbDisk, notStore>>

\* one pass of the loop
St_batch_insert ==
    /\ batchCall.pc = "building"
    /\ batchCall.pos < Len(batchCall.pages)
    /\ LET r == batch_insert(crate, db, batchCall.batch, batchCall.pages[batchCall.pos + 1])
       IN  /\ db' = r.db
           /\ batchCall' = IF r.ok
                           THEN [batchCall EXCEPT !.pos = @ + 1, !.batch = r.batch]
                           ELSE NoBatchCall
    /\ UNCHANGED <<crate, dbDisk, lastOp, notStore>>

\* self.db.apply_batch(batch)?; Ok(())
St_batch_apply ==
    /\ batchCall.pc = "building"
    /\ batchCall.pos = Len(batchCall.pages)
    /\ db' = apply_batch(db, batchCall.batch)
    /\ batchCall' = [batchCall EXCEPT !.pc = "applied", !.batch = {}]
    /\ lastOp' = Called("save_pages_batch", batchCall.pages, TRUE)
    /\ UNCHANGED <<crate, dbDisk, notStore>>

\* sled writes its log out (flush_every_ms, or the handle is dropped): every
\* write made so far survives a crash
St_flush ==
    /\ dbDisk # db
    /\ dbDisk' = db
    /\ UNCHANGED <<crate, db, batchCall, lastOp, notStore>>

\* the process dies and the store is opened again: the writes that were not
\* flushed, and the batch under construction, are gone
St_crash ==
    /\ dbDisk # db \/ batchCall.pc = "building"
    /\ db' = dbDisk
    /\ batchCall' = IF batchCall.pc = "idle" THEN batchCall
                    ELSE [batchCall EXCEPT !.pc = "crashed", !.batch = {}]
    /\ lastOp' = NoOp
    /\ UNCHANGED <<crate, dbDisk, notStore>>

StoreNext ==
    \/ St_save_page
    \/ St_batch_begin
    \/ St_batch_insert
    \/ St_batch_apply
    \/ St_flush
    \/ St_crash

SpecStore == StoreInit /\ [][StoreNext]_vars

SameView(d1, d2) == \A id \in PageIds : get_page(d1, id) = get_page(d2, id)

\* the tree with the whole batch of the call applied to what it held at entry
BatchPost == save_pages_batch(crate, batchCall.pre, batchCall.pages).db

\* C8: from the entry of save_pages_batch(P) until the next write, the tree a
\* concurrent get_page reads, and the tree a reopening after a crash finds,
\* shows for every id either what the store held without the batch or what it
\* holds with all of P applied: never a part of P.
C8_BatchAllOrNothing ==
    batchCall.pc \in {"building", "applied", "crashed"} =>
        \A d \in {db, dbDisk} :
            \/ SameView(d, batchCall.pre)
            \/ SameView(d, batchCall.preDisk)
            \/ SameView(d, BatchPost)

\* C8 witness: the process died after one of the two pages of a batch had
\* been put into the sled::Batch, and the reopened store shows neither.
C8_Witness ==
    /\ batchCall.pc = "crashed"
    /\ Len(batchCall.pages) = 2
    /\ batchCall.pos = 1
    /\ batchCall.pages[1].id # batchCall.pages[2].id
    /\ \A k \in 1..2 : get_page(batchCall.pre, batchCall.pages[k].id)
                          # [ok |-> TRUE, some |-> TRUE, page |-> batchCall.pages[k]]
    /\ SameView(db, batchCall.preDisk)
    /\ ~SameView(db, BatchPost)

-----------------------------------------------------------------------------
(* The application (src-tauri lib.rs): the initialization thread that run() *)
(* spawns, sync_local_repo, the flushes of sled, restarts of the process    *)
(* and commits on origin.                                                    *)

\* most revisions origin goes through
MaxRev == 2
\* most starts of the application
MaxRuns == 2

\* a working tree: at most one version of each document
Trees == {t \in SUBSET Pages : \A p, q \in t : p.id = q.id => p = q}

\* index_local_files: one page per document of the working tree, in path order
RECURSIVE index_local_files(_)
index_local_files(tree) ==
    IF tree = {} THEN <<>>
    ELSE LET last == CHOOSE p \in tree : \A q \in tree : q.id[1] <= p.id[1]
         IN  Append(index_local_files(tree \ {last}), last)

\* repo.merge_analysis of the fetched head against the local HEAD: commits
\* are numbered in the order origin made them; the local commit is an
\* ancestor of the fetched one when it is still in origin's history
merge_analysis(m, origin) ==
    IF m.rev = origin.rev THEN "up_to_date"
    ELSE IF m.rev >= origin.base THEN "fast_forward"
    ELSE "normal"

\* clone_with_progress: RepoBuilder::clone with a forced checkout
clone_with_progress(origin) ==
    [exists |-> TRUE, rev |-> origin.rev, wt |-> origin.rev, tree |-> origin.tree]

\* reference.set_target(oid, "Fast-Forward"); repo.set_head(&ref_name) keeps
\* HEAD on the same branch
set_target(m, oid) == [m EXCEPT !.rev = oid]

\* repo.checkout_head(force): the working tree becomes that of HEAD's commit
checkout_head(m, origin) ==
    IF m.rev = origin.rev THEN [m EXCEPT !.wt = origin.rev, !.tree = origin.tree] ELSE m

\* mutant: the reference is advanced and the working tree is not checked out
fast_forward_refOnly(m, origin) == set_target(m, origin.rev)

fast_forward(m, origin) == checkout_head(set_target(m, origin.rev), origin)

\* which branch of update_local_repository runs
Outcome(m, origin) == IF m.exists THEN merge_analysis(m, origin) ELSE "clone"

\* mutant: a history that needs a merge is replaced by the fetched one
update_local_repository_reset(m, origin) ==
    [ok |-> TRUE, mirror |-> clone_with_progress(origin)]

\* update_local_repository, when fetch or clone succeed: Ok(repo) in every
\* branch
update_local_repository(m, origin) ==
    [ok |-> TRUE,
     mirror |-> CASE Outcome(m, origin) = "clone"        -> clone_with_progress(origin)
                  [] Outcome(m, origin) = "up_to_date"   -> m
                  [] Outcome(m, origin) = "fast_forward" -> fast_forward(m, origin)
                  [] Outcome(m, origin) = "normal"       -> m]

\* the record of a call
GitCall(who, m, origin, outcome, ok) ==
    [by |-> who, outcome |-> outcome, ok |-> ok, before |-> m, fetched |-> origin]

needs_full_rebuild == ~storageDir \/ indexDir = "absent"

\* mutant: readiness is read off the directories on disk
is_ready_from_files == storageDir /\ indexDir = "index"

is_ready == appState.search_engine /\ appState.storage

\* mutant: the thread keeps the search engine to itself
Ready_storageOnly == [search_engine |-> FALSE, storage |-> TRUE]

\* state.search_engine = Some(search_engine); state.storage = Some(storage)
Ready == [search_engine |-> TRUE, storage |-> TRUE]

IdsOf(docs) == {docs[k].id : k \in 1..Len(docs)}
StoreIds(d) == {e[1] : e \in {x \in d : ~StartsWithMeta(x[1])}}

\* "meta:last_sync"
LastSyncKey == <<0, 1>>

\* mutant: the initialization thread takes the write lock when it starts
LockHolder_wholeInit ==
    IF sync.pc # "idle" THEN "sync"
    ELSE IF pc \notin {"off", "done", "failed"} THEN "init"
    ELSE "free"

\* who holds the write lock of the RwLock around AppStateInner: sync_local_repo
\* for the whole call, the initialization thread from state_clone.write() to
\* the end of the Ok arm
LockHolder ==
    IF sync.pc # "idle" THEN "sync"
    ELSE IF pc = "publishing" THEN "init"
    ELSE "free"

\* a command that takes the read lock gets it without waiting
CanRead == LockHolder = "free"

\* mutant: the title is taken from the stored page
RECURSIVE FilterMapHits_storedTitle(_, _, _)
FilterMapHits_storedTitle(hits, d, n) ==
    IF n = 0 THEN <<>>
    ELSE LET got == get_page(d, hits[n].id)
             rest == FilterMapHits_storedTitle(hits, d, n - 1)
         IN  IF got.ok /\ got.some
             THEN Append(rest, [title |-> got.page.title, url |-> got.page.url])
             ELSE rest

\* filter_map over the hits: a hit whose page the store does not return (None
\* or Err) is dropped; title from the hit, url from the stored page
RECURSIVE FilterMapHits(_, _, _)
FilterMapHits(hits, d, n) ==
    IF n = 0 THEN <<>>
    ELSE LET got == get_page(d, hits[n].id)
             rest == FilterMapHits(hits, d, n - 1)
         IN  IF got.ok /\ got.some
             THEN Append(rest, [title |-> hits[n].title, url |-> got.page.url])
             ELSE rest

NotInitialized == {"search engine is not initialized", "storage is not initialized"}

\* mutant: the handles are not checked
get_search_results_unchecked(st, reader, d, query) ==
    LET hits == search(reader, query, QueryLimit)
    IN  [ok |-> TRUE, err |-> "none", results |-> FilterMapHits(hits, d, Len(hits)),
         searches |-> 1, reads |-> Len(hits)]

\* get_search_results: [ok, err, results] and what it did (searches made,
\* get_page calls made)
get_search_results(st, reader, d, query) ==
    IF ~st.search_engine
    THEN [ok |-> FALSE, err |-> "search engine is not initialized", results |-> <<>>,
          searches |-> 0, reads |-> 0]
    ELSE IF ~st.storage
    THEN [ok |-> FALSE, err |-> "storage is not initialized", results |-> <<>>,
          searches |-> 0, reads |-> 0]
    ELSE LET found == try_search(reader, query, QueryLimit, "none")
             hits == found.hits
         IN  IF ~found.ok
             THEN [ok |-> FALSE, err |-> FailedToSearch(found.err), results |-> <<>>,
                   searches |-> 1, reads |-> 0]
             ELSE [ok |-> TRUE, err |-> "none",
                   results |-> FilterMapHits(hits, d, Len(hits)),
                   searches |-> 1, reads |-> Len(hits)]

\* app_handle.emit("init-status", message)
Status(message) == [event |-> "init-status", payload |-> message]

\* mutant: an Err of initialize_components is not reported
Ended_silent(p, evs) == evs

\* the thread's match on the result so far: an Err of initialize_components
\* is reported with init-error and the thread ends
Ended(p, evs) ==
    IF p = "failed" THEN Append(evs, [event |-> "init-error", payload |-> "e"]) ELSE evs

Init ==
    /\ crate = "tauri"
    /\ db = {}
    /\ dbDisk = {}
    /\ idxDocs = <<>>
    /\ idxReader = <<>>
    /\ libBuilt = FALSE
    /\ libDistinct = TRUE
    /\ written = [id \in PageIds \cup ValidMetaKeys |-> NoPage]
    /\ lastOp = NoOp
    /\ batchCall = NoBatchCall
    /\ remote \in {[rev |-> 1, base |-> 1, tree |-> t] : t \in Trees}
    /\ mirror = NoMirror
    /\ gitOp = NoGitOp
    /\ storageDir = FALSE
    /\ indexDir = "absent"
    /\ pc = "spawned"
    /\ initPages = <<>>
    /\ appState = [search_engine |-> FALSE, storage |-> FALSE]
    /\ sync = [pc |-> "idle", pages |-> <<>>]
    /\ runs = 1
    /\ completed = <<>>
    /\ events = <<>>
    /\ parseCall = NoParseCall

\* let _repo = update_local_repository(path)?;
Init_update_local_repository ==
    /\ pc = "spawned"
    /\ LET r == update_local_repository(mirror, remote)
       IN  /\ mirror' = r.mirror
           /\ gitOp' = GitCall("init", mirror, remote, Outcome(mirror, remote), r.ok)
           /\ pc' = IF r.ok THEN "synced" ELSE "failed"
    /\ events' = Ended(pc', events \o <<Status("Initializing..."),
                                        Status("Synchronizing repository...")>>)
    /\ UNCHANGED <<db, dbDisk, idxDocs, idxReader, remote, storageDir, indexDir, initPages,
                   appState, sync, runs, completed, notApp>>

\* the same call returns Err before it changes anything (origin cannot be
\* reached in clone or fetch): the thread reports init-error and ends, the
\* handles stay None
Init_update_fails ==
    /\ pc = "spawned"
    /\ pc' = "failed"
    /\ gitOp' = GitCall("init", mirror, remote, "fetch_failed", FALSE)
    /\ events' = Ended(pc', events \o <<Status("Initializing..."),
                                        Status("Synchronizing repository...")>>)
    /\ UNCHANGED <<db, dbDisk, idxDocs, idxReader, remote, mirror, storageDir, indexDir,
                   initPages, appState, sync, runs, completed, notApp>>

\* the same call returns Err inside fast_forward: set_target is done and
\* set_head or checkout_head returns Err
Init_fast_forward_fails ==
    /\ pc = "spawned"
    /\ Outcome(mirror, remote) = "fast_forward"
    /\ mirror' = set_target(mirror, remote.rev)
    /\ gitOp' = GitCall("init", mirror, remote, "checkout_failed", FALSE)
    /\ pc' = "failed"
    /\ events' = Ended(pc', events \o <<Status("Initializing..."),
                                        Status("Synchronizing repository...")>>)
    /\ UNCHANGED <<db, dbDisk, idxDocs, idxReader, remote, storageDir, indexDir, initPages,
                   appState, sync, runs, completed, notApp>>

\* let pages = index_local_files(path)?; let needs_full_rebuild = ...
Init_index_local_files ==
    /\ pc = "synced"
    /\ IF ~mirror.exists
       THEN pc' = "failed" /\ initPages' = initPages
       ELSE /\ initPages' = index_local_files(mirror.tree)
            /\ pc' = IF needs_full_rebuild THEN "boot_storage" ELSE "incr_storage"
    /\ gitOp' = IF gitOp.by = "init" THEN NoGitOp ELSE gitOp
    /\ events' = Ended(pc', events)
    /\ UNCHANGED <<db, dbDisk, idxDocs, idxReader, remote, mirror, storageDir, indexDir,
                   appState, sync, runs, completed, notApp>>

\* bootstrap: let storage = Storage::new(...)?
Boot_Storage_new ==
    /\ pc = "boot_storage"
    /\ storageDir' = TRUE
    /\ pc' = "boot_save"
    /\ events' = Ended(pc', events \o <<Status("Parsing pages..."),
                                        Status("Initializing storage...")>>)
    /\ UNCHANGED <<db, dbDisk, idxDocs, idxReader, remote, mirror, indexDir, initPages,
                   appState, sync, runs, completed, notGit>>

\* bootstrap: storage.save_pages_batch(&pages)?
Boot_save_pages_batch ==
    /\ pc = "boot_save"
    /\ LET r == save_pages_batch(crate, db, initPages)
       IN  /\ db' = r.db
           /\ pc' = IF r.ok THEN "boot_index" ELSE "failed"
    /\ events' = Ended(pc', events)
    /\ UNCHANGED <<dbDisk, idxDocs, idxReader, remote, mirror, storageDir, indexDir,
                   initPages, appState, sync, runs, completed, notGit>>

\* TantivySearch::new, first half: open_in_dir when the directory exists
\* (Err when it holds no index), otherwise create_dir_all
TantivySearch_new(next) ==
    /\ CASE indexDir = "index"  -> /\ idxReader' = idxDocs
                                    /\ pc' = next
                                    /\ UNCHANGED <<indexDir, idxDocs>>
         [] indexDir = "empty"  -> /\ pc' = "failed"
                                    /\ UNCHANGED <<indexDir, idxDocs, idxReader>>
         [] indexDir = "absent" -> /\ indexDir' = "empty"
                                    /\ pc' = "boot_create"
                                    /\ UNCHANGED <<idxDocs, idxReader>>

\* bootstrap: let mut search_engine = TantivySearch::new(...)?
Boot_TantivySearch_new ==
    /\ pc = "boot_index"
    /\ TantivySearch_new("boot_build")
    /\ events' = Ended(pc', Append(events, Status("Building search index...")))
    /\ UNCHANGED <<db, dbDisk, remote, mirror, storageDir, initPages, appState, sync, runs,
                   completed, notGit>>

\* TantivySearch::new, second half: Index::create_in_dir, index.reader()
Boot_create_in_dir ==
    /\ pc = "boot_create"
    /\ indexDir' = "index"
    /\ idxDocs' = <<>>
    /\ idxReader' = <<>>
    /\ pc' = "boot_build"
    /\ UNCHANGED <<events, db, dbDisk, remote, mirror, storageDir, initPages, appState, sync, runs,
                   completed, notGit>>

\* bootstrap: search_engine.build_index(&pages)?
Boot_build_index ==
    /\ pc = "boot_build"
    /\ idxDocs' = build_index(idxDocs, initPages)
    /\ idxReader' = idxDocs'
    /\ pc' = "publish"
    /\ UNCHANGED <<events, db, dbDisk, remote, mirror, storageDir, indexDir, initPages, appState,
                   sync, runs, completed, notGit>>

\* incremental: let storage = Storage::new(...)?
Incr_Storage_new ==
    /\ pc = "incr_storage"
    /\ pc' = "incr_index"
    /\ events' = Ended(pc', Append(events, Status("Loading existing data...")))
    /\ UNCHANGED <<db, dbDisk, idxDocs, idxReader, remote, mirror, storageDir, indexDir,
                   initPages, appState, sync, runs, completed, notGit>>

\* incremental: let mut search_engine = TantivySearch::new(...)?
Incr_TantivySearch_new ==
    /\ pc = "incr_index"
    /\ TantivySearch_new("incr_update")
    /\ events' = Ended(pc', Append(events, Status("Checking for index updates...")))
    /\ UNCHANGED <<db, dbDisk, remote, mirror, storageDir, initPages, appState, sync, runs,
                   completed, notGit>>

\* incremental: search_engine.update_pages_batch(&pages)?
Incr_update_pages_batch ==
    /\ pc = "incr_update"
    /\ idxDocs' = update_pages_batch(idxDocs, initPages, IdIndexed(crate))
    /\ idxReader' = idxDocs'
    /\ pc' = "publish"
    /\ UNCHANGED <<events, db, dbDisk, remote, mirror, storageDir, indexDir, initPages, appState,
                   sync, runs, completed, notGit>>

\* Ok((search_engine, storage)): let mut state = state_clone.write().unwrap()
Init_lock ==
    /\ pc = "publish"
    /\ LockHolder = "free"
    /\ pc' = "publishing"
    /\ UNCHANGED <<events, db, dbDisk, idxDocs, idxReader, remote, mirror, storageDir, indexDir,
                   initPages, appState, sync, runs, completed, notGit>>

\* both handles are set and the lock is released
Init_publish ==
    /\ pc = "publishing"
    /\ appState' = Ready
    /\ completed' = Append(completed, mirror.rev)
    /\ pc' = "done"
    /\ events' = Append(events, [event |-> "init-complete", payload |-> "true"])
    /\ UNCHANGED <<db, dbDisk, idxDocs, idxReader, remote, mirror, storageDir, indexDir,
                   initPages, sync, runs, notGit>>

\* sync_local_repo (feature "ignore"), under the write lock: update the
\* mirror, extract, check the handles, storage.save_pages_batch(&pages)
Sync_save_pages_batch ==
    /\ LockHolder = "free"
    /\ pc # "off"
    /\ mirror' = update_local_repository(mirror, remote).mirror
    /\ LET pages == index_local_files(mirror'.tree)
           r == save_pages_batch(crate, db, pages)
       IN  IF ~is_ready
           THEN db' = db /\ sync' = sync /\ gitOp' = NoGitOp
           ELSE /\ db' = r.db
                /\ sync' = IF r.ok THEN [pc |-> "saved", pages |-> pages] ELSE sync
                /\ gitOp' = IF r.ok
                            THEN GitCall("sync", mirror, remote, Outcome(mirror, remote), TRUE)
                            ELSE gitOp
    /\ UNCHANGED <<events, dbDisk, idxDocs, idxReader, remote, storageDir, indexDir, pc, initPages,
                   appState, runs, completed, notApp>>

\* sync_local_repo, second write: search_engine.update_pages_batch(&pages),
\* then the lock is released
Sync_update_pages_batch ==
    /\ sync.pc = "saved"
    /\ idxDocs' = update_pages_batch(idxDocs, sync.pages, IdIndexed(crate))
    /\ idxReader' = idxDocs'
    /\ sync' = [pc |-> "idle", pages |-> <<>>]
    /\ gitOp' = NoGitOp
    /\ UNCHANGED <<events, db, dbDisk, remote, mirror, storageDir, indexDir, pc, initPages,
                   appState, runs, completed, notApp>>

\* the same call returns Err (the index cannot be written): sync_local_repo
\* returns "Building search index failed" and the lock is released
Sync_update_fails ==
    /\ sync.pc = "saved"
    /\ sync' = [pc |-> "idle", pages |-> <<>>]
    /\ gitOp' = NoGitOp
    /\ UNCHANGED <<events, db, dbDisk, idxDocs, idxReader, remote, mirror, storageDir, indexDir, pc,
                   initPages, appState, runs, completed, notApp>>

\* sled writes its log out while a Storage is open
Flush ==
    /\ storageDir
    /\ pc \in {"boot_save", "boot_index", "boot_create", "boot_build", "incr_index",
               "incr_update", "publish", "publishing", "done", "failed"}
    /\ dbDisk # db
    /\ dbDisk' = db
    /\ UNCHANGED <<events, db, idxDocs, idxReader, remote, mirror, storageDir, indexDir, pc,
                   initPages, appState, sync, runs, completed, notGit>>

\* the process ends (window closed, killed, power lost) and the application
\* is started again: the files stay, the handles and unflushed writes go
Restart ==
    /\ runs < MaxRuns
    /\ runs' = runs + 1
    /\ db' = dbDisk
    /\ idxReader' = <<>>
    /\ pc' = "spawned"
    /\ initPages' = <<>>
    /\ appState' = [search_engine |-> FALSE, storage |-> FALSE]
    /\ sync' = [pc |-> "idle", pages |-> <<>>]
    /\ gitOp' = NoGitOp
    /\ events' = <<>>
    /\ UNCHANGED <<dbDisk, idxDocs, remote, mirror, storageDir, indexDir, completed, notApp>>

\* a commit on origin: some documents added, changed or removed
RemoteCommit ==
    /\ remote.rev < MaxRev
    /\ \E t \in Trees \ {remote.tree} :
          remote' = [rev |-> remote.rev + 1, base |-> remote.base, tree |-> t]
    /\ UNCHANGED <<events, db, dbDisk, idxDocs, idxReader, mirror, storageDir, indexDir, pc,
                   initPages, appState, sync, runs, completed, notGit>>

\* origin's history is rewritten (forced push): its new head has none of the
\* earlier commits as an ancestor
RemoteRewrite ==
    /\ remote.rev < MaxRev
    /\ \E t \in Trees \ {remote.tree} :
          remote' = [rev |-> remote.rev + 1, base |-> remote.rev + 1, tree |-> t]
    /\ UNCHANGED <<events, db, dbDisk, idxDocs, idxReader, mirror, storageDir, indexDir, pc,
                   initPages, appState, sync, runs, completed, notGit>>

Next ==
    \/ Init_update_local_repository
    \/ Init_update_fails
    \/ Init_fast_forward_fails
    \/ Init_index_local_files
    \/ Boot_Storage_new
    \/ Boot_save_pages_batch
    \/ Boot_TantivySearch_new
    \/ Boot_create_in_dir
    \/ Boot_build_index
    \/ Incr_Storage_new
    \/ Incr_TantivySearch_new
    \/ Incr_update_pages_batch
    \/ Init_lock
    \/ Init_publish
    \/ Sync_save_pages_batch
    \/ Sync_update_pages_batch
    \/ Sync_update_fails
    \/ Flush
    \/ Restart
    \/ RemoteCommit
    \/ RemoteRewrite

Spec == Init /\ [][Next]_vars

-----------------------------------------------------------------------------
(* Claims about the passes of the application *)

\* C1: in every state in which queries are served (is_ready, no resync
\* holding the write lock), the set of page ids in the Search Index equals
\* the set of page ids in the Durable Store.
C1_ReadyIndexIdsEqualStoreIds ==
    (is_ready /\ sync.pc = "idle") => IdsOf(idxReader) = StoreIds(db)

\* C2: the store is written before the index in every pass, so whenever
\* queries are served every page id a search can return has a record in the
\* Durable Store.
C2_SearchableIdHasStoreRecord ==
    is_ready => \A k \in 1..Len(idxReader) : get_page(db, idxReader[k].id).some

\* C9: when a pass of initialization has ended with Ok, the SyncCursor kept
\* in the store's metadata is the revision of the mirror that pass absorbed.
C9_CursorIsLastAbsorbedRevision ==
    pc = "done" =>
        get_metadata(db, LastSyncKey)
            = [ok |-> TRUE, some |-> TRUE, value |-> <<completed[Len(completed)]>>,
               err |-> "none"]

\* C10: when initialization has run to completion for the first time, after
\* any number of interrupted runs and with origin never changed, the stores
\* are as one uninterrupted pass leaves them: every extracted page has exactly
\* one record, equal to it, in the Durable Store and exactly one document in
\* the Search Index, and neither holds anything else.
C10_RerunEqualsUninterruptedPass ==
    (pc = "done" /\ Len(completed) = 1 /\ remote.rev = 1) =>
        /\ StoreIds(db) = IdsOf(initPages)
        /\ IdsOf(idxDocs) = IdsOf(initPages)
        /\ \A k \in 1..Len(initPages) :
              /\ RecordCount(db, initPages[k].id) = 1
              /\ get_page(db, initPages[k].id).page = initPages[k]
              /\ LiveCount(idxDocs, initPages[k].id) = 1
              /\ \E j \in 1..Len(idxDocs) : idxDocs[j] = DocOf(initPages[k])

\* the steps of the initialization thread before it asks for the lock
InitWorking == {"spawned", "synced", "boot_storage", "boot_save", "boot_index",
                "boot_create", "boot_build", "incr_storage", "incr_index",
                "incr_update", "publish"}

\* C11: is_ready is true exactly when both handles are present, and it is
\* false in every state of a run in which no initialization has succeeded.
C11_ReadyIffBothHandles ==
    /\ is_ready <=> (appState.search_engine /\ appState.storage)
    /\ pc # "done" => ~is_ready

\* C11 witness: in the second run, over the directories the first run left,
\* initialization has succeeded and is_ready is true.
C11_Witness ==
    /\ runs = 2
    /\ pc = "done"
    /\ is_ready
    /\ Len(completed) = 1

\* C12: in a state where is_ready is false, get_search_results returns a
\* not-initialized error for every query, with no result list, and makes no
\* search and no get_page call.
C12_QueryBeforeReadyIsError ==
    ~is_ready =>
        \A q \in Words :
            LET r == get_search_results(appState, idxReader, db, q)
            IN  /\ ~r.ok
                /\ r.err \in NotInitialized
                /\ r.results = <<>>
                /\ r.searches = 0
                /\ r.reads = 0

\* C12 witness: is_ready is false while the opened index and store already
\* hold a page that a search for one of its words would find.
C12_Witness ==
    /\ ~is_ready
    /\ \E q \in Words :
          LET hits == search(idxReader, q, QueryLimit)
          IN  /\ hits # <<>>
              /\ get_page(db, hits[1].id).some

\* C13: while the initialization thread works (clone or fetch, extraction,
\* store write, index build) it does not hold the state lock, and is_ready
\* is false.
C13_InitWorksWithoutTheLock ==
    pc \in InitWorking => (LockHolder # "init" /\ ~is_ready)

\* C13 witness: the thread is about to build the index, the store write is
\* done, and the lock is free for a query.
C13_Witness ==
    /\ pc = "boot_build"
    /\ db # {}
    /\ CanRead

\* C14: when a pass fails while both stores exist from an earlier successful
\* pass, the system goes on serving: is_ready is true afterwards.
C14_FailedIncrementalStaysReady ==
    (pc = "failed" /\ completed # <<>> /\ storageDir /\ indexDir = "index") => is_ready

\* the documents a search serves, and the documents of the pages stored
ServedDocs == {idxReader[k] : k \in 1..Len(idxReader)}
StoredDocs == {DocOf(get_page(db, id).page) : id \in StoreIds(db)}

\* C15: whenever a query can run (is_ready, the write lock free), no pass is
\* applied to one store only: the documents served by the index are the
\* documents of the pages in the store.
C15_QueriesSeeWholePasses ==
    (is_ready /\ CanRead) => ServedDocs = StoredDocs

-----------------------------------------------------------------------------
(* Claims about the mirror *)

\* C16: when the fetched history is not a fast-forward of the local one, the
\* call of the initialization thread returns Err and the pass is aborted.
C16_DivergedIsReportedAsFailure ==
    (gitOp.by = "init" /\ gitOp.outcome = "normal") => (~gitOp.ok /\ pc = "failed")

\* C17: when the fetched history is not a fast-forward of the local one,
\* update_local_repository leaves the local reference, HEAD and the working
\* tree as they were.
C17_DivergedLeavesMirrorUntouched ==
    gitOp.outcome = "normal" => mirror = gitOp.before

\* C17 witness: the call found a rewritten history on origin whose head has
\* other documents than the working tree.
C17_Witness ==
    /\ gitOp.outcome = "normal"
    /\ gitOp.before.exists
    /\ gitOp.fetched.rev > mirror.rev
    /\ gitOp.fetched.tree # mirror.tree

\* C18: a call that fetched into an existing mirror took the one branch the
\* merge analysis names; up-to-date changes nothing; only fast-forward
\* changes the mirror, and after it the local reference is the fetched commit
\* and the working tree is that commit's.
C18_OneOutcomeAndOnlyFastForwardMoves ==
    gitOp.outcome \in {"up_to_date", "fast_forward", "normal"} =>
        /\ gitOp.before.exists
        /\ gitOp.outcome = merge_analysis(gitOp.before, gitOp.fetched)
        /\ gitOp.outcome = "up_to_date" => mirror = gitOp.before
        /\ gitOp.outcome = "fast_forward" =>
              /\ mirror.rev = gitOp.fetched.rev
              /\ mirror.wt = gitOp.fetched.rev
              /\ mirror.tree = gitOp.fetched.tree
        /\ mirror # gitOp.before => gitOp.outcome = "fast_forward"

\* C18 witness: a fast-forward to a commit with other documents was made.
C18_Witness ==
    /\ gitOp.outcome = "fast_forward"
    /\ gitOp.ok
    /\ gitOp.before.tree # gitOp.fetched.tree
    /\ gitOp.before.wt = gitOp.before.rev

\* C19: after a call that returned Err, the local reference and the working
\* tree are those from before the call.
C19_FailedSyncLeavesMirrorAsItWas ==
    ~gitOp.ok =>
        /\ mirror.rev = gitOp.before.rev
        /\ mirror.wt = gitOp.before.wt
        /\ mirror.tree = gitOp.before.tree

-----------------------------------------------------------------------------
(* The Page Extractor: src/src/parser.rs.  index_local_files walks the      *)
(* mirror and calls parse_html_file on every .html file.  An entry of the   *)
(* walk is [path, walk_ok, is_file, html, readable, doc]; doc is what       *)
(* Html::parse_document makes of the file's text: [has_h1, title,           *)
(* has_div, content, has_edit, has_href, href].                              *)

\* most entries of a walk
MaxFiles == 3

\* "/nlab/edit/" and "https://ncatlab.org/nlab/show/"
EditPrefix == <<7>>
BaseUrl == <<400>>

\* the entries the walk can yield for path <<i>>
EntryKinds == {"page", "untitled", "no_content", "dir", "other_ext", "walk_error",
               "unreadable", "no_edit_link", "no_href", "bad_href"}

DirEntry(i, kind) ==
    [path |-> <<i>>,
     walk_ok |-> kind # "walk_error",
     is_file |-> kind # "dir",
     html |-> kind # "other_ext",
     readable |-> kind # "unreadable",
     doc |-> [has_h1 |-> kind # "untitled",
              title |-> IF kind = "untitled" THEN <<>> ELSE <<100 + i, 201>>,
              has_div |-> kind # "no_content",
              content |-> IF kind = "no_content" THEN <<>> ELSE <<10 * i + 1, 300>>,
              has_edit |-> kind # "no_edit_link",
              has_href |-> kind # "no_href",
              href |-> IF kind = "bad_href" THEN <<9, i>> ELSE EditPrefix \o <<i>>]]

\* WalkDir::new(repo_path): every path once, in path order
Walks ==
    UNION {{[k \in 1..n |-> DirEntry(k, f[k])] : f \in [1..n -> EntryKinds]} :
           n \in 0..MaxFiles}

ParseOk(v) == [ok |-> TRUE, err |-> "none", value |-> v]
ParseErr(e, v) == [ok |-> FALSE, err |-> e, value |-> v]

\* extract_title, extract_content: the text of the first h1#pageName and of
\* the first div#revision, String::new() without one
extract_title(doc) == IF doc.has_h1 THEN doc.title ELSE <<>>
extract_content(doc) == IF doc.has_div THEN doc.content ELSE <<>>

\* mutant: the href is not checked for the "/nlab/edit/" prefix
extract_url_anyHref(doc) ==
    IF ~doc.has_edit THEN ParseErr("NoEditLinkFound", <<>>)
    ELSE IF ~doc.has_href THEN ParseErr("MissingHrefAttribute", <<>>)
    ELSE ParseOk(BaseUrl \o SubSeq(doc.href, Len(EditPrefix) + 1, Len(doc.href)))

\* extract_url: a#edit, its href, the part after "/nlab/edit/"
extract_url(doc) ==
    IF ~doc.has_edit THEN ParseErr("NoEditLinkFound", <<>>)
    ELSE IF ~doc.has_href THEN ParseErr("MissingHrefAttribute", <<>>)
    ELSE IF SubSeq(doc.href, 1, Len(EditPrefix)) # EditPrefix
         THEN ParseErr("UnexpectedHrefFormat", <<>>)
    ELSE ParseOk(BaseUrl \o SubSeq(doc.href, Len(EditPrefix) + 1, Len(doc.href)))

\* parse_html_file: strip_prefix cannot fail on a path the walk of repo_path
\* yields; read_to_string and extract_url can
parse_html_file(entry) ==
    IF ~entry.readable THEN ParseErr("FileReadError", NoPage)
    ELSE LET url == extract_url(entry.doc)
         IN  IF ~url.ok THEN ParseErr(url.err, NoPage)
             ELSE ParseOk(NLabPage_new(entry.path, extract_title(entry.doc), url.value,
                                       extract_content(entry.doc)))

\* path.is_file() && extension == "html", on an entry filter_map let through
IsHtmlFile(entry) == entry.is_file /\ entry.html

ParseInit ==
    /\ crate = "demo"
    /\ db = {}
    /\ dbDisk = {}
    /\ idxDocs = <<>>
    /\ idxReader = <<>>
    /\ libBuilt = FALSE
    /\ libDistinct = TRUE
    /\ written = [id \in PageIds \cup ValidMetaKeys |-> NoPage]
    /\ lastOp = NoOp
    /\ batchCall = NoBatchCall
    /\ AppUnused
    /\ \E w \in Walks :
          parseCall = [NoParseCall EXCEPT !.entries = w, !.pc = "walking"]

Walking == parseCall.pc = "walking" /\ parseCall.next <= Len(parseCall.entries)
Entry == parseCall.entries[parseCall.next]

\* filter_map(|e| e.ok()): an entry the walk could not read is dropped
Ilf_filter_map ==
    /\ Walking
    /\ ~Entry.walk_ok
    /\ parseCall' = [parseCall EXCEPT !.next = @ + 1]
    /\ UNCHANGED notParse

\* not a file, or not an .html file
Ilf_not_html ==
    /\ Walking
    /\ Entry.walk_ok
    /\ ~IsHtmlFile(Entry)
    /\ parseCall' = [parseCall EXCEPT !.next = @ + 1]
    /\ UNCHANGED notParse

\* Ok(Some(page)) => pages.push(page)
Ilf_parse_ok ==
    /\ Walking
    /\ Entry.walk_ok
    /\ IsHtmlFile(Entry)
    /\ parse_html_file(Entry).ok
    /\ parseCall' = [parseCall EXCEPT !.next = @ + 1,
                                      !.pages = Append(@, parse_html_file(Entry).value)]
    /\ UNCHANGED notParse

\* Err(e) => skipped_files.push((path, e))
Ilf_parse_err ==
    /\ Walking
    /\ Entry.walk_ok
    /\ IsHtmlFile(Entry)
    /\ ~parse_html_file(Entry).ok
    /\ parseCall' = [parseCall EXCEPT
                        !.next = @ + 1,
                        !.skipped_files = Append(@, <<Entry.path, parse_html_file(Entry).err>>)]
    /\ UNCHANGED notParse

\* after the loop: the skipped files are printed, Ok(pages) is returned and
\* the local skipped_files is dropped
Ilf_return ==
    /\ parseCall.pc = "walking"
    /\ parseCall.next > Len(parseCall.entries)
    /\ parseCall' = [parseCall EXCEPT !.pc = "returned",
                                      !.printed = parseCall.skipped_files,
                                      !.skipped_files = <<>>,
                                      !.pages = <<>>,
                                      !.ret = [ok |-> TRUE, pages |-> parseCall.pages]]
    /\ UNCHANGED notParse

ParseNext ==
    \/ Ilf_filter_map
    \/ Ilf_not_html
    \/ Ilf_parse_ok
    \/ Ilf_parse_err
    \/ Ilf_return

SpecParse == ParseInit /\ [][ParseNext]_vars

\* the .html files among the first n entries whose extraction succeeded: their pages
RECURSIVE ExtractedPages(_, _)
ExtractedPages(entries, n) ==
    IF n = 0 THEN <<>>
    ELSE LET e == entries[n]
             rest == ExtractedPages(entries, n - 1)
         IN  IF e.walk_ok /\ IsHtmlFile(e) /\ parse_html_file(e).ok
             THEN Append(rest, parse_html_file(e).value)
             ELSE rest

\* the .html files among the first n entries whose extraction failed: (path, reason)
RECURSIVE SkippedDocuments(_, _)
SkippedDocuments(entries, n) ==
    IF n = 0 THEN <<>>
    ELSE LET e == entries[n]
             rest == SkippedDocuments(entries, n - 1)
         IN  IF e.walk_ok /\ IsHtmlFile(e) /\ ~parse_html_file(e).ok
             THEN Append(rest, <<e.path, parse_html_file(e).err>>)
             ELSE rest

\* the skip list the caller receives with the return value
ReturnedSkipList(ret) ==
    IF "skipped_files" \in DOMAIN ret THEN ret.skipped_files ELSE <<>>

\* C20: index_local_files returns both results: the pages of exactly the
\* .html files whose extraction succeeded, and the skip list with every
\* skipped file and its failure reason; no failure aborts the call.
C20_ReturnsPagesAndSkipList ==
    parseCall.pc = "returned" =>
        /\ parseCall.ret.ok
        /\ parseCall.ret.pages =
              ExtractedPages(parseCall.entries, Len(parseCall.entries))
        /\ ReturnedSkipList(parseCall.ret) =
              SkippedDocuments(parseCall.entries, Len(parseCall.entries))

\* the pages the call has collected: pages during the loop, the returned
\* Vec afterwards
CollectedPages ==
    IF parseCall.pc = "returned" THEN parseCall.ret.pages ELSE parseCall.pages

\* the a#edit of the document does not give a canonical URL
UrlFails(doc) ==
    \/ ~doc.has_edit
    \/ ~doc.has_href
    \/ Len(doc.href) < Len(EditPrefix)
    \/ \E k \in 1..Len(EditPrefix) : doc.href[k] # EditPrefix[k]

\* C21: of the readable .html files the loop has passed, one whose a#edit is
\* missing, has no href or has an href without the /nlab/edit/ prefix has no
\* page among the collected pages; every other one has a page, with the text
\* of its h1#pageName and div#revision, empty for an element it lacks.
C21_NoUrlNoPageNoHeadingStillPage ==
    \A k \in 1..(parseCall.next - 1) :
        LET e == parseCall.entries[k]
            mine == {j \in 1..Len(CollectedPages) : CollectedPages[j].id = e.path}
        IN  (e.walk_ok /\ IsHtmlFile(e) /\ e.readable) =>
                /\ UrlFails(e.doc) => mine = {}
                /\ ~UrlFails(e.doc) =>
                      /\ Cardinality(mine) = 1
                      /\ \A j \in mine :
                            /\ CollectedPages[j].title =
                                  (IF e.doc.has_h1 THEN e.doc.title ELSE <<>>)
                            /\ CollectedPages[j].content =
                                  (IF e.doc.has_div THEN e.doc.content ELSE <<>>)

\* C21 witness: the call returned from a walk with a file whose href has
\* another prefix, a file without heading and a file without content region;
\* the two pages returned have an empty title and an empty content.
C21_Witness ==
    /\ parseCall.pc = "returned"
    /\ Len(parseCall.entries) = 3
    /\ \E k \in 1..3 : LET d == parseCall.entries[k].doc
                       IN  d.has_edit /\ d.has_href /\ UrlFails(d)
    /\ Len(parseCall.ret.pages) = 2
    /\ \E j \in 1..2 : parseCall.ret.pages[j].title = <<>>
    /\ \E j \in 1..2 : parseCall.ret.pages[j].content = <<>>
    /\ Len(parseCall.printed) = 1

-----------------------------------------------------------------------------
(* Claims about searches on one TantivySearch *)

\* the pages of the slice in which the term occurs, by position
PagesWith(pages, t) == {k \in 1..Len(pages) : OccursIn(t, DocOf(pages[k]))}

\* C22: right after build_index(P) on an empty index, P with pairwise
\* distinct ids, a search for a term that occurs in exactly one page of P
\* returns exactly one hit, with that page's id, title and content.
C22_BuiltPageFoundOnce ==
    (lastOp.op = "build_index" /\ lastOp.ok /\ DistinctIds(lastOp.pages)) =>
        \A t \in Words :
            Cardinality(PagesWith(lastOp.pages, t)) = 1 =>
                LET p == lastOp.pages[CHOOSE k \in PagesWith(lastOp.pages, t) : TRUE]
                    r == search(idxReader, t, QueryLimit)
                IN  /\ Len(r) = 1
                    /\ r[1].id = p.id
                    /\ r[1].title = p.title
                    /\ r[1].content = p.content

\* C22 witness: two pages with different ids were built; a term of the
\* second page only finds it, and the term both hold finds both.
C22_Witness ==
    /\ lastOp.op = "build_index"
    /\ Len(lastOp.pages) = 2
    /\ lastOp.pages[1].id # lastOp.pages[2].id
    /\ \E t \in Words :
          /\ PagesWith(lastOp.pages, t) = {2}
          /\ Len(search(idxReader, t, QueryLimit)) = 1
          /\ search(idxReader, t, QueryLimit)[1].id = lastOp.pages[2].id
    /\ Len(search(idxReader, 300, QueryLimit)) = 2

\* the limits and the values of min_score a search is called with
Limits == {1, 2}
MinScores == {0, 1, 2}

\* the documents the reader serves that match the term, by address
Matching(t, title_only) ==
    {a \in 1..Len(idxReader) : Score(idxReader[a], t, title_only) > 0}

\* the place of a matching document in the ranking: better scores first,
\* equal scores by address
Rank(a, t, title_only) ==
    1 + Cardinality({b \in Matching(t, title_only) :
            \/ Score(idxReader[b], t, title_only) > Score(idxReader[a], t, title_only)
            \/ /\ Score(idxReader[b], t, title_only) = Score(idxReader[a], t, title_only)
               /\ b < a})

\* C23: for every index state (as a mutating call or the start left it),
\* term, limit n and threshold m, with or without title_only,
\* search_with_filters returns at most n hits, none with a score below m, and
\* they are exactly the hits of rank 1..n whose score is at least m, in rank
\* order.
C23_TopHitsAtLeastMinScore ==
    lastOp.op # "search" =>
    \A t \in Queries \ {MalformedQuery}, n \in Limits, m \in MinScores, to \in BOOLEAN :
        LET r == search_with_filters(idxReader, t, n, to, m)
            keep == {a \in Matching(t, to) :
                        Rank(a, t, to) <= n /\ Score(idxReader[a], t, to) >= m}
        IN  /\ Len(r) <= n
            /\ \A k \in 1..Len(r) : r[k].score >= m
            /\ Len(r) = Cardinality(keep)
            /\ \A a \in keep :
                  /\ Rank(a, t, to) <= Len(r)
                  /\ r[Rank(a, t, to)] =
                        SearchResult(idxReader[a], Score(idxReader[a], t, to))

\* C23 witness: the reader serves two documents that match one term with
\* scores 1 and 2: threshold 2 keeps one of the two hits, limit 1 returns
\* the better one only.
C23_Witness ==
    \E t \in Queries \ {MalformedQuery} :
        /\ Len(search_with_filters(idxReader, t, 2, FALSE, 0)) = 2
        /\ search_with_filters(idxReader, t, 2, FALSE, 0)[1].score = 2
        /\ search_with_filters(idxReader, t, 2, FALSE, 0)[2].score = 1
        /\ Len(search_with_filters(idxReader, t, 2, FALSE, 2)) = 1
        /\ Len(search_with_filters(idxReader, t, 1, FALSE, 0)) = 1
        /\ lastOp.op # "none"

\* the hit made of this document is among the results
Returned(r, doc) ==
    \E k \in 1..Len(r) :
        r[k].id = doc.id /\ r[k].title = doc.title /\ r[k].content = doc.content

IndexMutated ==
    /\ lastOp.op \in {"build_index", "update_page", "update_pages_batch", "delete_page"}
    /\ lastOp.ok

\* C25: with the schema of src-tauri, once build_index, update_page,
\* update_pages_batch or delete_page has returned Ok, a search on the handle
\* answers from the index as the call left it: the reader serves the
\* committed documents, every page written is found by each of its terms,
\* an upserted id has no other version left, and a deleted id is not found.
C25_SearchAfterMutationSeesIt ==
    (crate = "tauri" /\ IndexMutated) =>
        /\ idxReader = idxDocs
        /\ lastOp.op = "delete_page" =>
              \A t \in Words :
                  LET r == search(idxReader, t, QueryLimit)
                  IN  \A k \in 1..Len(r) : r[k].id # lastOp.pages[1].id
        /\ lastOp.op # "delete_page" =>
              \A j \in 1..Len(lastOp.pages) :
                  LastOfId(lastOp.pages, j) =>
                      \A t \in Words :
                          LET p == lastOp.pages[j]
                              r == search(idxReader, t, QueryLimit)
                          IN  /\ OccursIn(t, DocOf(p)) => Returned(r, DocOf(p))
                              /\ lastOp.op # "build_index" =>
                                    \A k \in 1..Len(r) :
                                        r[k].id = p.id =>
                                            /\ r[k].title = p.title
                                            /\ r[k].content = p.content

\* C25 witness: update_page returned for the second version of a page while
\* the index holds another page; the search for the second version's own
\* term finds it and the first version's own term finds nothing.
C25_Witness ==
    /\ crate = "tauri"
    /\ lastOp.op = "update_page" /\ lastOp.ok
    /\ lastOp.pages[1] = PageOf(1, 2)
    /\ Len(idxReader) = 2
    /\ Len(search(idxReader, 12, QueryLimit)) = 1
    /\ Len(search(idxReader, 11, QueryLimit)) = 0

\* C26: a search with a malformed query, and no other search, fails with the
\* kind QueryParseError, which is neither the engine's nor the I/O kind; the
\* command's message for it differs from its other messages; the call leaves
\* the index, its reader and the store as they were.
C26_MalformedQueryIsItsOwnError ==
    [][lastOp'.op = "search" =>
          /\ UNCHANGED <<idxDocs, idxReader, db, dbDisk>>
          /\ (lastOp'.pages[1].id = MalformedQuery) <=> (lastOp'.err = "QueryParseError")
          /\ lastOp'.err = "QueryParseError" => ~lastOp'.ok
          /\ lastOp'.err \in {"none", "QueryParseError", "TantivyError"}
          /\ \A q \in Queries :
                LET r == get_search_results(Ready, idxReader, db, q)
                IN  /\ (q = MalformedQuery) <=> (r.err = FailedToSearch("QueryParseError"))
                    /\ q = MalformedQuery => (~r.ok /\ r.results = <<>>)
          /\ FailedToSearch("QueryParseError") \notin
                {FailedToSearch("IoError"), FailedToSearch("TantivyError")} \cup NotInitialized
      ]_vars

\* C26 witness: a malformed query was answered on an index that holds
\* documents.
C26_Witness ==
    /\ lastOp.op = "search"
    /\ lastOp.pages[1].id = MalformedQuery
    /\ lastOp.err = "QueryParseError"
    /\ ~lastOp.ok
    /\ Len(idxReader) = 2

-----------------------------------------------------------------------------
(* Claims about the metadata and the size limit of the Storage *)

MetaKeyOf(op) == op.pages[1].id

\* C27: a set_metadata or get_metadata with a key without the prefix meta:
\* returns InvalidMetadataKey and leaves the store as it was; with the
\* prefix, set_metadata succeeds and get_metadata returns the value of the
\* last successful set_metadata of that key, None if there was none.
C27_MetadataKeysAreChecked ==
    [][lastOp'.op \in {"set_metadata", "get_metadata"} =>
          /\ ~StartsWithMeta(MetaKeyOf(lastOp')) =>
                /\ ~lastOp'.ok
                /\ lastOp'.err = "InvalidMetadataKey"
                /\ db' = db
          /\ StartsWithMeta(MetaKeyOf(lastOp')) =>
                /\ lastOp'.ok
                /\ lastOp'.op = "get_metadata" =>
                      /\ db' = db
                      /\ lastOp'.pages[1].some = (written[MetaKeyOf(lastOp')] # NoPage)
                      /\ lastOp'.pages[1].some =>
                            lastOp'.pages[1].value = written[MetaKeyOf(lastOp')]
                /\ lastOp'.op = "set_metadata" =>
                      \A k \in ValidMetaKeys \ {MetaKeyOf(lastOp')} :
                          get_metadata(db', k) = get_metadata(db, k)
      ]_vars

\* C27 witness: a key was set twice with different values while another key
\* and a page were stored; get_metadata returned the second value.
C27_Witness ==
    /\ lastOp.op = "get_metadata" /\ lastOp.ok
    /\ lastOp.pages[1].some
    /\ lastOp.pages[1].value = <<2>>
    /\ \E e \in db : e[1] = MetaKeyOf(lastOp) /\ e[2] = <<2>>
    /\ \E k \in ValidMetaKeys : k # MetaKeyOf(lastOp) /\ get_metadata(db, k).some
    /\ \E id \in PageIds : get_page(db, id).some

Oversized(page) == Len(encode_to_vec(page)) > NLAB_PAGE_SIZE

\* C28 as claimed: a save_page of a page whose serialized form is larger
\* than the limit returns PageSizeExceeded and changes get_page for no id.
C28_OversizedPageIsRejected ==
    [][(lastOp'.op = "save_page" /\ Oversized(lastOp'.pages[1])) =>
          /\ ~lastOp'.ok
          /\ lastOp'.err = "PageSizeExceeded"
          /\ \A id \in PageIds : get_page(db', id) = get_page(db, id)
      ]_vars

\* C28 amended: in the crate whose save_page checks the size (src/src), a
\* save_page of a page whose serialized form is larger than NLAB_PAGE_SIZE
\* returns PageSizeExceeded, leaves the tree as it was and changes get_page
\* for no id.
C28_OversizedPageIsRejectedWhereChecked ==
    [][(lastOp'.op = "save_page" /\ Oversized(lastOp'.pages[1]) /\ SizeLimitEnforced(crate)) =>
          /\ ~lastOp'.ok
          /\ lastOp'.err = "PageSizeExceeded"
          /\ db' = db
          /\ \A id \in PageIds : get_page(db', id) = get_page(db, id)
      ]_vars

\* C28 witness: in src/src the oversized version of a page was rejected
\* while the store holds another version of that page.
C28_Witness ==
    /\ SizeLimitEnforced(crate)
    /\ lastOp.op = "save_page" /\ ~lastOp.ok
    /\ lastOp.err = "PageSizeExceeded"
    /\ Oversized(lastOp.pages[1])
    /\ get_page(db, lastOp.pages[1].id).some
    /\ get_page(db, lastOp.pages[1].id).page = PageOf(1, 2)

-----------------------------------------------------------------------------
(* Claims about what an update of the index leaves alone *)

\* C29: update_pages_batch with an empty slice returns Ok and leaves the
\* index as it was: the committed documents and the documents the reader
\* serves are the same, and every search, whatever its term and limit,
\* returns the same hits after the call as before it.
C29_EmptyBatchChangesNothing ==
    [][(lastOp'.op = "update_pages_batch" /\ lastOp'.pages = <<>>) =>
          /\ lastOp'.ok
          /\ idxDocs' = idxDocs
          /\ idxReader' = idxReader
          /\ \A t \in Words, n \in Limits \cup {QueryLimit} :
                search(idxReader', t, n) = search(idxReader, t, n)
      ]_vars

\* C29 witness: update_pages_batch returned for the empty slice on an index
\* that holds two documents.
C29_Witness ==
    /\ lastOp.op = "update_pages_batch" /\ lastOp.pages = <<>> /\ lastOp.ok
    /\ Len(idxReader) = 2
    /\ idxDocs = idxReader
    /\ Len(search(idxReader, 300, QueryLimit)) = 2

\* the documents whose id is none of the ids, in the order of their addresses
RECURSIVE Besides(_, _)
Besides(docs, ids) ==
    IF docs = <<>> THEN <<>>
    ELSE IF Head(docs).id \in ids THEN Besides(Tail(docs), ids)
    ELSE <<Head(docs)>> \o Besides(Tail(docs), ids)

\* the documents of the reader that match the term in title or content
MatchesOf(reader, t) == {a \in 1..Len(reader) : Score(reader[a], t, FALSE) > 0}

\* the call that has just returned is an update of the index
Updated(op) == op.op \in {"update_page", "update_pages_batch"}

\* the documents with ids outside B are the same before and after, and every
\* id of B is indexed afterwards with the last version B gives it
OnlyIdsOfBChange(B, before, after) ==
    LET ids == {B[j].id : j \in 1..Len(B)}
    IN  /\ Besides(after, ids) = Besides(before, ids)
        /\ \A j \in 1..Len(B) :
              LastOfId(B, j) => \E a \in 1..Len(after) : after[a] = DocOf(B[j])

\* the hits of search(t, n) before the call whose id is outside B are hits
\* of search(t, n) after it, with the same id, title and content
\* the hits of a result list, as a set
RECURSIVE HitsOf(_)
HitsOf(results) ==
    IF results = <<>> THEN {} ELSE {Head(results)} \cup HitsOf(Tail(results))

OthersStillReturned(B, before, after, t, n) ==
    \A was \in HitsOf(search(before, t, n)) :
        (\A j \in 1..Len(B) : B[j].id # was.id) =>
            \E is \in HitsOf(search(after, t, n)) :
                is.id = was.id /\ is.title = was.title /\ is.content = was.content

\* C30 as claimed: update_page and update_pages_batch(B) change only the
\* documents whose ids are in B, every page with another id is still returned
\* unchanged by every search that returned it before, and the new ids of B
\* are added.
C30_UpdateLeavesOthersAlone ==
    [][Updated(lastOp') =>
          /\ OnlyIdsOfBChange(lastOp'.pages, idxReader, idxReader')
          /\ \A t \in Queries \ {MalformedQuery}, n \in {1, QueryLimit} :
                OthersStillReturned(lastOp'.pages, idxReader, idxReader', t, n)
      ]_vars

\* C30 amended: update_page and update_pages_batch(B) change only the
\* documents whose ids are in B and add the ids of B that were not indexed;
\* every page with another id is still returned unchanged by every search
\* that returned it before, provided the search's limit is not smaller than
\* the number of documents that match the query after the call.
C30_UpdateLeavesOthersAloneWithinLimit ==
    [][Updated(lastOp') =>
          /\ OnlyIdsOfBChange(lastOp'.pages, idxReader, idxReader')
          /\ \A t \in Queries \ {MalformedQuery}, n \in {1, QueryLimit} :
                n >= Cardinality(MatchesOf(idxReader', t)) =>
                    OthersStillReturned(lastOp'.pages, idxReader, idxReader', t, n)
      ]_vars

\* C30 witness: update_pages_batch returned for the second version of page 1
\* on the index of src-tauri; the first version of page 2 is served at the
\* address it had, found by its own term, and the search for the common
\* word with limit 1 returns page 1, which holds the word twice.
C30_Witness ==
    /\ crate = "tauri"
    /\ lastOp.op = "update_pages_batch" /\ lastOp.ok
    /\ lastOp.pages = <<PageOf(1, 2)>>
    /\ idxReader = <<DocOf(PageOf(2, 1)), DocOf(PageOf(1, 2))>>
    /\ Len(search(idxReader, 21, QueryLimit)) = 1
    /\ search(idxReader, 300, 1)[1].id = <<1>>

\* C31: after delete_page(id) returns Ok no search returns a hit with that
\* id, the documents with other ids are the same as before, and a
\* delete_page of an id that is not indexed leaves the index as it was.
C31_DeletedIdIsNotFound ==
    [][(lastOp'.op = "delete_page" /\ lastOp'.ok) =>
          LET id == lastOp'.pages[1].id
          IN  /\ \A t \in Words :
                    \A hit \in HitsOf(search(idxReader', t, QueryLimit)) : hit.id # id
              /\ Besides(idxReader', {id}) = Besides(idxReader, {id})
              /\ id \notin IdsOf(idxReader) => idxReader' = idxReader
      ]_vars

-----------------------------------------------------------------------------
(* Claims about the events, the writers and the readiness of the application *)

\* the positions of the terminal events among the events of this run
Terminal == {k \in 1..Len(events) : events[k].event \in {"init-complete", "init-error"}}

\* C32: a run of the initialization thread that has ended has emitted
\* exactly one terminal event, init-complete when it published the handles
\* and init-error when initialize_components returned Err, as its last
\* event; a run that has not ended has emitted none; every other event of
\* the run is an init-status event, so each of them precedes the terminal
\* event.
C32_OneTerminalEventAfterTheStatusEvents ==
    /\ pc \in {"done", "failed"} =>
          /\ Terminal = {Len(events)}
          /\ events[Len(events)].event = (IF pc = "done" THEN "init-complete" ELSE "init-error")
    /\ pc \notin {"done", "failed"} => Terminal = {}
    /\ \A k \in 1..Len(events) : k \notin Terminal => events[k].event = "init-status"

\* C32 witness: in its second run the application failed to open the index
\* after the status events of the incremental branch and reported init-error.
C32_Witness ==
    /\ runs = 2
    /\ pc = "failed"
    /\ Len(events) = 5
    /\ events[4] = Status("Checking for index updates...")
    /\ events[5].event = "init-error"

-----------------------------------------------------------------------------
(* The command-line program: src-tauri/main.rs, on the library of src/src *)

MainInit ==
    /\ crate = "demo"
    /\ db = {}
    /\ dbDisk = {}
    /\ idxDocs = <<>>
    /\ idxReader = <<>>
    /\ libBuilt = FALSE
    /\ libDistinct = TRUE
    /\ written = [id \in PageIds \cup ValidMetaKeys |-> NoPage]
    /\ lastOp = NoOp
    /\ batchCall = NoBatchCall
    /\ remote \in {[rev |-> 1, base |-> 1, tree |-> t] : t \in Trees}
    /\ mirror = NoMirror
    /\ gitOp = NoGitOp
    /\ storageDir = FALSE
    /\ indexDir = "absent"
    /\ pc = "main"
    /\ initPages = <<>>
    /\ appState = [search_engine |-> FALSE, storage |-> FALSE]
    /\ sync = [pc |-> "idle", pages |-> <<>>]
    /\ runs = 1
    /\ completed = <<>>
    /\ events = <<>>
    /\ parseCall = NoParseCall

\* let _repo = update_local_repository(path)?; if path.exists() {
\* let indexed_data = index_local_files(path)?;
Main_index_local_files ==
    /\ pc = "main"
    /\ LET r == update_local_repository(mirror, remote)
       IN  /\ mirror' = r.mirror
           /\ initPages' = IF r.ok THEN index_local_files(r.mirror.tree) ELSE initPages
           /\ pc' = IF r.ok THEN "main_storage" ELSE "main_exit"
    /\ UNCHANGED <<db, dbDisk, idxDocs, idxReader, remote, storageDir, indexDir, appState,
                   sync, runs, completed, events, notGit>>

\* let storage = Storage::new("nlab_data.db")?;
\* storage.save_pages_batch(&indexed_data)?;
Main_save_pages_batch ==
    /\ pc = "main_storage"
    /\ storageDir' = TRUE
    /\ LET r == save_pages_batch(crate, db, initPages)
       IN  /\ db' = r.db
           /\ pc' = IF r.ok THEN "main_index" ELSE "main_exit"
    /\ UNCHANGED <<dbDisk, idxDocs, idxReader, remote, mirror, indexDir, initPages, appState,
                   sync, runs, completed, events, notGit>>

\* let mut search_engine = TantivySearch::new(index_dir)?: open_in_dir when
\* the directory exists, otherwise create_dir_all and create_in_dir
Main_TantivySearch_new ==
    /\ pc = "main_index"
    /\ indexDir' = "index"
    /\ idxDocs' = IF indexDir = "index" THEN idxDocs ELSE <<>>
    /\ idxReader' = idxDocs'
    /\ pc' = "main_build"
    /\ UNCHANGED <<db, dbDisk, remote, mirror, storageDir, initPages, appState, sync, runs,
                   completed, events, notGit>>

\* search_engine.build_index(&indexed_data.clone())?; the searches and the
\* reads that follow change nothing, and main returns
Main_build_index ==
    /\ pc = "main_build"
    /\ idxDocs' = build_index(idxDocs, initPages)
    /\ idxReader' = idxDocs'
    /\ pc' = "main_exit"
    /\ UNCHANGED <<db, dbDisk, remote, mirror, storageDir, indexDir, initPages, appState,
                   sync, runs, completed, events, notGit>>

\* the program is run again: nlab_data.db and tantivy_index stay
Main_again ==
    /\ pc = "main_exit"
    /\ runs < MaxRuns
    /\ runs' = runs + 1
    /\ pc' = "main"
    /\ initPages' = <<>>
    /\ idxReader' = <<>>
    /\ UNCHANGED <<db, dbDisk, idxDocs, remote, mirror, storageDir, indexDir, appState, sync,
                   completed, events, notGit>>

MainNext ==
    \/ Main_index_local_files
    \/ Main_save_pages_batch
    \/ Main_TantivySearch_new
    \/ Main_build_index
    \/ Main_again
    \/ RemoteCommit
    \/ RemoteRewrite

SpecMain == MainInit /\ [][MainNext]_vars

\* C33: whenever an orchestrator (initialize_components, main) is about to
\* call build_index, the index it has opened holds no documents.
C33_BuildIndexOnlyOnEmptyIndex ==
    pc \in {"boot_build", "main_build"} => idxDocs = <<>>

\* the calls that open an IndexWriter on the index and have not returned:
\* build_index or update_pages_batch of the initialization thread, and
\* update_pages_batch of sync_local_repo
WriterSessions ==
    {w \in {"init", "sync"} :
        \/ w = "init" /\ pc \in {"boot_build", "incr_update"}
        \/ w = "sync" /\ sync.pc = "saved"}

\* C34: under every interleaving of the initialization thread, resyncs and
\* restarts, at most one call holds a writer session on the index: a resync
\* writes the index only after the thread has published it, and resyncs
\* exclude each other by the write lock they hold for the whole call.
C34_AtMostOneWriterSession ==
    /\ Cardinality(WriterSessions) <= 1
    /\ "sync" \in WriterSessions => (LockHolder = "sync" /\ pc = "done")

\* C34 witness: in the second run a resync is about to write the index the
\* thread has built and published, while the thread has ended.
C34_Witness ==
    /\ runs = 2
    /\ WriterSessions = {"sync"}
    /\ idxDocs # <<>>
    /\ sync.pages # <<>>

-----------------------------------------------------------------------------
(* The keys of the Storage: pages and metadata in one tree *)

\* the page of a document whose path in the repository starts with the
\* metadata prefix ("meta:last_sync"): its id is its relative path
MetaPage == NLabPage_new(<<0, 1>>, <<103, 201>>, <<400, 3>>, <<31, 300>>)

\* save_page, of any page a repository can yield
Keys_save_page ==
    \E p \in Pages \cup {MetaPage} :
        LET r == save_page(crate, db, p)
        IN  /\ StoreRun
            /\ db' = r.db
            /\ written' = IF r.ok THEN Record(written, <<p>>, 1) ELSE written
            /\ lastOp' = [Called("save_page", <<p>>, r.ok) EXCEPT !.err = r.err]
            /\ UNCHANGED <<crate, dbDisk, idxDocs, idxReader, libBuilt, libDistinct, notLib>>

KeysNext ==
    \/ Keys_save_page
    \/ Lib_save_pages_batch
    \/ Lib_set_metadata
    \/ Lib_get_metadata

SpecKeys == LibInit /\ [][KeysNext]_vars

\* C35: set_metadata changes what get_page returns for no page id, and
\* save_page and save_pages_batch change what get_metadata returns for no
\* key.
C35_PagesAndMetadataKeepApart ==
    [][/\ (lastOp'.op = "set_metadata" /\ lastOp'.ok) =>
              \A id \in PageIds \cup {MetaPage.id} : get_page(db', id) = get_page(db, id)
       /\ (lastOp'.op \in {"save_page", "save_pages_batch"} /\ lastOp'.ok) =>
              \A k \in ValidMetaKeys : get_metadata(db', k) = get_metadata(db, k)
      ]_vars

-----------------------------------------------------------------------------
(* get_search_results on any index and store the handles can hold *)

\* an index of eleven documents that all hold the common word
ElevenDocs ==
    [k \in 1..(QueryLimit + 1) |-> DocOf(IF k % 2 = 1 THEN PageOf(1, 1) ELSE PageOf(2, 2))]

\* the documents the reader serves: up to two of any pages, or the eleven
IndexedDocs ==
    {[k \in 1..Len(ps) |-> DocOf(ps[k])] : ps \in SeqsUpTo(Pages \cup {MetaPage}, 2)}
        \cup {ElevenDocs}

\* the trees the store holds: the pages of a batch, alone or with a metadata
\* entry under the key that is also the id of a page
StoredTrees ==
    {save_pages_batch("tauri", {}, ps).db : ps \in Batches}
        \cup {set_metadata(save_pages_batch("tauri", {}, ps).db, MetaPage.id, <<1>>).db :
                ps \in Batches}

QueryInit ==
    /\ crate = "tauri"
    /\ db \in StoredTrees
    /\ dbDisk = db
    /\ idxReader \in IndexedDocs
    /\ idxDocs = idxReader
    /\ libBuilt = FALSE
    /\ libDistinct = TRUE
    /\ written = [id \in PageIds \cup ValidMetaKeys |-> NoPage]
    /\ lastOp = NoOp
    /\ batchCall = NoBatchCall
    /\ parseCall = NoParseCall
    /\ remote = [rev |-> 0, base |-> 0, tree |-> {}]
    /\ mirror = NoMirror
    /\ gitOp = NoGitOp
    /\ storageDir = TRUE
    /\ indexDir = "index"
    /\ pc = "done"
    /\ initPages = <<>>
    /\ appState = Ready
    /\ sync = [pc |-> "idle", pages |-> <<>>]
    /\ runs = 1
    /\ completed = <<>>
    /\ events = <<>>

\* the command get_search_results(state, query) and what it returned
Query_get_search_results ==
    \E q \in Queries \cup {31} :
        LET r == get_search_results(appState, idxReader, db, q)
        IN  /\ lastOp' = [op |-> "get_search_results",
                          pages |-> <<[id |-> q, results |-> r.results]>>,
                          ok |-> r.ok, err |-> r.err]
            /\ UNCHANGED <<crate, db, dbDisk, idxDocs, idxReader, libBuilt, libDistinct,
                           written, notLib>>

QueryNext == Query_get_search_results

SpecQuery == QueryInit /\ [][QueryNext]_vars

\* the hits of search(q, 10) whose id the store returns a page for, by
\* their place among the hits
Backed(q) ==
    LET hits == search(idxReader, q, QueryLimit)
    IN  {k \in 1..Len(hits) : get_page(db, hits[k].id).ok /\ get_page(db, hits[k].id).some}

\* C36: with both handles published, get_search_results answers a
\* well-formed query with Ok and at most 10 entries: one entry for each hit
\* of search(query, 10) whose id has a readable record in the store, in the
\* order of the hits, with the hit's title and the record's url; a hit
\* without a record, or with a record that cannot be decoded, is left out.
C36_ResultsAreTheHitsTheStoreBacks ==
    (lastOp.op = "get_search_results" /\ lastOp.pages[1].id # MalformedQuery) =>
        LET q == lastOp.pages[1].id
            results == lastOp.pages[1].results
            hits == search(idxReader, q, QueryLimit)
        IN  /\ lastOp.ok
            /\ Len(results) <= QueryLimit
            /\ Len(results) = Cardinality(Backed(q))
            /\ \A k \in Backed(q) :
                  results[Cardinality({j \in Backed(q) : j <= k})] =
                      [title |-> hits[k].title, url |-> get_page(db, hits[k].id).page.url]

\* C36 witness: the index holds eleven documents with the word asked for
\* and the store has a record for one of the two page ids; the ten hits are
\* cut down to the entries of that page, each with the title of its hit.
C36_Witness ==
    /\ lastOp.op = "get_search_results" /\ lastOp.ok
    /\ lastOp.pages[1].id = 300
    /\ Len(idxReader) = QueryLimit + 1
    /\ Len(search(idxReader, 300, QueryLimit)) = QueryLimit
    /\ Len(lastOp.pages[1].results) \in 1..(QueryLimit - 1)
    /\ get_page(db, <<1>>).some
    /\ \E k \in 1..Len(lastOp.pages[1].results) :
          lastOp.pages[1].results[k].title # get_page(db, <<1>>).page.title

\* C36 witness of the unreadable record: the one hit is a page whose key in
\* the store holds a metadata value, and the answer is Ok and empty.
C36_UnreadableRecordIsLeftOut ==
    /\ lastOp.op = "get_search_results" /\ lastOp.ok
    /\ lastOp.pages[1].id = 31
    /\ Len(search(idxReader, 31, QueryLimit)) = 1
    /\ ~get_page(db, MetaPage.id).ok
    /\ lastOp.pages[1].results = <<>>

-----------------------------------------------------------------------------
(* Claims about a batch that is rejected *)

\* C37: a save_pages_batch that returns Err has written nothing: the tree
\* is as it was and get_page returns for every id what it returned before,
\* also for the pages that precede the rejected one in the slice. Where the
\* size limit is enforced (src/src) a slice with an oversized page is
\* rejected with PageSizeExceeded; no other page is rejected.
C37_RejectedBatchWritesNothing ==
    [][lastOp'.op = "save_pages_batch" =>
          LET ps == lastOp'.pages
              oversized == \E k \in 1..Len(ps) : Oversized(ps[k])
          IN  /\ ~lastOp'.ok <=> (SizeLimitEnforced(crate) /\ oversized)
              /\ ~lastOp'.ok =>
                    /\ lastOp'.err = "PageSizeExceeded"
                    /\ db' = db
                    /\ \A id \in PageIds : get_page(db', id) = get_page(db, id)
      ]_vars

\* C37 witness: in src/src a slice of a new page followed by the oversized
\* page was rejected, and the store has no record of the page that came
\* first.
C37_Witness ==
    /\ SizeLimitEnforced(crate)
    /\ lastOp.op = "save_pages_batch" /\ ~lastOp.ok
    /\ lastOp.err = "PageSizeExceeded"
    /\ lastOp.pages = <<PageOf(2, 1), LargePage>>
    /\ ~get_page(db, <<2>>).some
    /\ get_page(db, <<1>>).some

-----------------------------------------------------------------------------
(* Claims about what the passes keep *)

\* C38: no step of an initialization or resync pass removes a page id from
\* the store or from the index: across every step that is not a restart of
\* the process, the ids of the store and the ids of the committed index
\* only grow, whatever the mirror holds by then.
C38_PassesNeverRemoveAnId ==
    [][runs' = runs =>
          /\ StoreIds(db) \subseteq StoreIds(db')
          /\ IdsOf(idxDocs) \subseteq IdsOf(idxDocs')
      ]_vars

\* C38 witness: a later pass has ended on a mirror from which a document
\* has disappeared; its page is still in the store and in the served index.
C38_Witness ==
    /\ pc = "done"
    /\ mirror.rev = 2
    /\ \E id \in PageIds :
          /\ \A p \in mirror.tree : p.id # id
          /\ get_page(db, id).some
          /\ id \in IdsOf(idxReader)
          /\ \E p \in mirror.tree : p.id \in IdsOf(idxReader)

\* C39: until the initialization thread has published the handles, it is
\* the only task that works on the mirror: a step that is not a step of the
\* thread (a resync that returns its not-initialized error) leaves the
\* mirror, the store and the index as they were.
C39_ResyncBeforeInitTouchesNothing ==
    [][(~is_ready /\ pc' = pc /\ runs' = runs) =>
          /\ mirror' = mirror
          /\ db' = db
          /\ idxDocs' = idxDocs
      ]_vars

\* C40: once the thread has emitted init-complete, is_ready is true and
\* get_search_results is served, never answered with a not-initialized
\* error, in every later state of the run, whatever resyncs begin, succeed
\* or fail in between.
C40_ReadinessIsNeverRevoked ==
    (\E k \in Terminal : events[k].event = "init-complete") =>
        /\ is_ready
        /\ \A q \in {MalformedQuery, 101} :
              get_search_results(appState, idxReader, db, q).err \notin NotInitialized

\* C40 witness: after init-complete of the second run a resync has written
\* the store and holds the lock for its write of the index; the handles are
\* in place.
C40_Witness ==
    /\ runs = 2
    /\ Terminal # {}
    /\ events[Len(events)].event = "init-complete"
    /\ sync.pc = "saved"
    /\ is_ready
    /\ get_search_results(appState, idxReader, db, 300).ok

====
